---- MODULE Spec2Model ----
(***************************************************************************)
(* Model of the Solana stake-authority batch tool: the constructor and     *)
(* main dispatch, changeAuthorities / withdrawFromInactiveAccounts, the    *)
(* batch loop of processBatchedTransactions, the transaction builders and  *)
(* sendSignedTransaction of SolanaSerializer, and the create/poll protocol *)
(* of FireblocksSigner; and the earlier batch-signing variant of           *)
(* changeAuthorities, which signs all transactions of a batch in one       *)
(* request and matches the signed messages to them by content.             *)
(*                                                                         *)
(* Strings that the code parses (the vault ids) are sequences of one       *)
(* character strings; addresses are naturals (0 = missing/undefined);      *)
(* a serialized transaction is the record of what was serialized.          *)
(***************************************************************************)
EXTENDS Integers, Sequences, FiniteSets, TLC

(***************************************************************************)
(* Bounds of the model                                                     *)
(***************************************************************************)
MaxAccounts == 9
MaxMixed == 2
MaxFaults == 2
MaxPolls == 2
MaxItems == 13
MaxBatchSize == 6
MaxIdLen == 2
MaxBatchTx == 2
MaxSigned == 3
MaxGroup == 2

(***************************************************************************)
(* Program constants                                                       *)
(***************************************************************************)
MAX_ACCOUNTS_PER_AUTHORITY_TX == 6
MAX_ACCOUNTS_PER_WITHDRAW_TX == 4
RENT_RESERVE == 3000000

\* SolscanService.requestInterval, in milliseconds
RequestInterval == 200

\* rate-limited queue: calls of rateLimitedRequest and the end of the clock
MaxRequests == 3
MaxClock == 600
\* accounts on one page of the listing (the code asks for pages of pageSize)
MaxPageLen == 2

VARIABLES
  pc,                      \* position of the single thread of control
  envOperation,            \* process.env.OPERATION
  envValid,                \* required environment variables and secret file present
  currentAuthorityVaultId, \* constructor argument / field
  newAuthorityVaultId,     \* constructor argument / field
  chainAccounts,           \* what the listing service holds for the authority
  existingAuthorityAddress,\* resolved address of the current authority (0 = none)
  newAuthorityAddress,     \* resolved address of the new authority (0 = none)
  stakeAccounts,           \* result of getStakeAccountsForAddress
  items,                   \* processBatchedTransactions: items
  batchSize,               \* processBatchedTransactions: batchSize
  batches,                 \* processBatchedTransactions: batches
  batchIndex,              \* processBatchedTransactions: batchIndex (0-based)
  results,                 \* processBatchedTransactions: results
  totalSuccessCount,
  totalFailureCount,
  tx,                      \* serialized transaction of the group in progress
  fbStatus,                \* status of the signing request at the service
  txResponse,              \* last response fetched by waitForSignature
  polls,                   \* number of status fetches of the current request
  faultsLeft,              \* remaining budget of external failures
  error,                   \* error that aborted the run ("" = none)
  resolveCalls,            \* vault ids handed to getAddressForVault, in order
  listCalls,               \* number of calls of getStakeAccountsForAddress
  blockhashFetches,        \* number of calls of getLatestBlockhash
  signRequests,            \* createTransaction requests, in order
  signFailed,              \* groups whose request was fetched in a failure state
  broadcasts,              \* sendRawTransaction submissions, in order
  report,                  \* rows handed to the CSV writer (<<>> = not written)
  signBatch,               \* batch-signing flow: batch
  buildIndex,              \* batch-signing flow: position of the build loop
  txDataMap,               \* batch-signing flow: txDataMap, in insertion order
  messagesForSigning,      \* batch-signing flow: messagesForSigning
  signedMessages,          \* batch-signing flow: signatureResponse.signedMessages
  signedIndex,             \* batch-signing flow: position of the loop over them
  batchTxResults,          \* batch-signing flow: batchTxResults
  batchSuccessCount,
  batchFailureCount,
  allTxResults,            \* batch-signing flow: allTxResults
  requestQueue,            \* SolscanService: requestQueue
  processing,              \* SolscanService: processing
  now,                     \* the clock, in milliseconds
  wakeAt,                  \* when the timer of processQueue is due
  started,                 \* outbound requests started, in order, with times
  enqueued,                \* number of calls of rateLimitedRequest
  loops,                   \* number of calls of processQueue inside the loop
  lastStatus,              \* waitForSignature: lastStatus
  statusLog,               \* status lines logged for the current request
  fetchedStatuses,         \* statuses fetched for the current request
  pagePc,                  \* position of getStakeAccountsForAddress
  currentPage,             \* getStakeAccountsForAddress: currentPage
  allStakeAccounts,        \* getStakeAccountsForAddress: allStakeAccounts
  pageCalls,               \* pages asked of Solscan, in order, with request ids
  pageReplies,             \* what Solscan answered, in order
  listResult               \* what getStakeAccountsForAddress returned

vars == << pc, envOperation, envValid, currentAuthorityVaultId,
           newAuthorityVaultId, chainAccounts, existingAuthorityAddress,
           newAuthorityAddress, stakeAccounts, items, batchSize, batches,
           batchIndex, results, totalSuccessCount, totalFailureCount, tx,
           fbStatus, txResponse, polls, faultsLeft, error, resolveCalls,
           listCalls, blockhashFetches, signRequests, signFailed, broadcasts,
           report, signBatch, buildIndex, txDataMap, messagesForSigning,
           signedMessages, signedIndex, batchTxResults, batchSuccessCount,
           batchFailureCount, allTxResults, requestQueue, processing, now,
           wakeAt, started, enqueued, loops, lastStatus, statusLog,
           fetchedStatuses, pagePc, currentPage, allStakeAccounts,
           pageCalls, pageReplies, listResult >>

\* the state of the batch-signing flow
corrVars == << signBatch, buildIndex, txDataMap, messagesForSigning,
               signedMessages, signedIndex, batchTxResults, batchSuccessCount,
               batchFailureCount, allTxResults >>

\* the locals and the log of waitForSignature
waitVars == << lastStatus, statusLog, fetchedStatuses >>

\* the locals and the history of getStakeAccountsForAddress
pageVars == << pagePc, currentPage, allStakeAccounts, pageCalls, pageReplies,
               listResult >>

\* the state of the rate-limited request queue of the listing service
queueVars == << requestQueue, processing, now, wakeAt, started, enqueued,
               loops >>

(***************************************************************************)
(* JavaScript primitives used by the code                                  *)
(***************************************************************************)
Digits == {"0", "1", "2", "3", "4", "5", "6", "7", "8", "9"}

DigitVal(c) ==
  CASE c = "0" -> 0 [] c = "1" -> 1 [] c = "2" -> 2 [] c = "3" -> 3
    [] c = "4" -> 4 [] c = "5" -> 5 [] c = "6" -> 6 [] c = "7" -> 7
    [] c = "8" -> 8 [] c = "9" -> 9

NaN == [nan |-> TRUE, val |-> 0]

Num(n) == [nan |-> FALSE, val |-> n]

RECURSIVE DigitPrefixVal(_, _, _)
\* value of the longest prefix of decimal digits of s, from position i
DigitPrefixVal(s, i, acc) ==
  IF i > Len(s) \/ s[i] \notin Digits
  THEN acc
  ELSE DigitPrefixVal(s, i + 1, acc * 10 + DigitVal(s[i]))

RECURSIVE SkipSpaces(_, _)
SkipSpaces(s, i) ==
  IF i <= Len(s) /\ s[i] = " " THEN SkipSpaces(s, i + 1) ELSE i

\* parseInt(s): leading blanks skipped, optional sign, then the longest run
\* of decimal digits; NaN when there is no digit.
ParseInt(s) ==
  LET i0 == SkipSpaces(s, 1)
      neg == i0 <= Len(s) /\ s[i0] = "-"
      i1 == IF i0 <= Len(s) /\ s[i0] \in {"-", "+"} THEN i0 + 1 ELSE i0
  IN IF i1 > Len(s) \/ s[i1] \notin Digits
     THEN NaN
     ELSE Num((IF neg THEN -1 ELSE 1) * DigitPrefixVal(s, i1, 0))

\* a > b on numbers: false whenever an operand is NaN
JsGt(a, b) == ~a.nan /\ ~b.nan /\ a.val > b.val

\* a === b on numbers: NaN is equal to nothing
JsStrictEq(a, b) == ~a.nan /\ ~b.nan /\ a.val = b.val

\* !s on a string
JsNot(s) == s = <<>>

Unset == "<unset>"

\* String.prototype.toLowerCase on the operation names and the account
\* statuses the model uses
ToLowerCase(s) ==
  CASE s = "Withdraw" -> "withdraw"
    [] s = "Change-Authority" -> "change-authority"
    [] s = "Inactive" -> "inactive"
    [] s = "Active" -> "active"
    [] OTHER -> s

\* slice with the end index taken as inclusive
SliceInclusive(arr, start, end) ==
  LET e == IF end + 1 > Len(arr) THEN Len(arr) ELSE end + 1
  IN IF start >= e THEN <<>> ELSE [k \in 1..(e - start) |-> arr[start + k]]

\* Array.prototype.slice(start, end) for 0-based start <= end
Slice(arr, start, end) ==
  LET e == IF end > Len(arr) THEN Len(arr) ELSE end
  IN IF start >= e THEN <<>> ELSE [k \in 1..(e - start) |-> arr[start + k]]

(***************************************************************************)
(* Data                                                                    *)
(***************************************************************************)
\* One element of the listing: pubkey.address (0 = missing), status, sol_balance.
Account(address, status, balance) ==
  [address |-> address, status |-> status, sol_balance |-> balance]

Kinds == {"rich", "active", "atReserve", "poor", "noaddr"}

\* The account of a kind at position i of a listing (its address is i).
KindAccount(kind, i) ==
  CASE kind = "rich" -> Account(i, "inactive", RENT_RESERVE + 2000000)
    [] kind = "active" -> Account(i, "active", RENT_RESERVE + 2000000)
    [] kind = "atReserve" -> Account(i, "inactive", RENT_RESERVE)
    [] kind = "poor" -> Account(i, "inactive", RENT_RESERVE - 2000000)
    [] kind = "noaddr" -> Account(0, "inactive", RENT_RESERVE + 2000000)

Min(a, b) == IF a < b THEN a ELSE b

\* Listings of n accounts: the first `mixed` positions hold any kind, the
\* others a well-formed inactive account with a balance above the reserve.
Listings(n, mixed) ==
  { [i \in 1..n |-> KindAccount(IF i <= mixed THEN k[i] ELSE "rich", i)] :
      k \in [1..Min(n, mixed) -> Kinds] }

NoTx == [blockhash |-> 0, feePayer |-> 0, instructions |-> <<>>]

NoSig == [signer |-> 0, msg |-> NoTx]

NoResponse == [status |-> "", subStatus |-> "", hasSignedMessages |-> FALSE,
               signedMessages |-> <<>>]

Alphabet == {"0", "1", "a"}

\* Strings over Alphabet of length at most n
Strings(n) == UNION { [1..k -> Alphabet] : k \in 0..n }

(***************************************************************************)
(* processBatchedTransactions: pure parts                                  *)
(***************************************************************************)
RECURSIVE BatchesFullOnly(_, _, _)
\* the loop with the condition i + batchSize <= items.length
BatchesFullOnly(its, size, i) ==
  IF i + size <= Len(its)
  THEN <<[k \in 1..size |-> its[i + k]]>> \o BatchesFullOnly(its, size, i + size)
  ELSE <<>>

RECURSIVE BatchesFrom(_, _, _)
\* for (let i = 0; i < items.length; i += batchSize) push(items.slice(i, i + batchSize))
BatchesFrom(its, size, i) ==
  IF i < Len(its)
  THEN <<Slice(its, i, i + size)>> \o BatchesFrom(its, size, i + size)
  ELSE <<>>

RECURSIVE BatchesSkippingFrom(_, _, _)
BatchesSkippingFrom(its, size, i) ==
  IF i < Len(its)
  THEN <<[k \in 1..Min(size, Len(its) - i) |-> its[i + k]]>>
       \o BatchesSkippingFrom(its, size, i + size + 1)
  ELSE <<>>

\* the loop with the step i += batchSize + 1
BatchesSkipping(its, size) == BatchesSkippingFrom(its, size, 0)

Batches(its, size) == BatchesFrom(its, size, 0)

\* getItemIdentifier: (account) => account.pubkey.address
GetItemIdentifier(account) == account.address

\* batch.map(getItemIdentifier)
ItemIds(batch) == [k \in 1..Len(batch) |-> GetItemIdentifier(batch[k])]

\* the record pushed after processTransaction resolved (txHash 0 = none,
\* errorMessage <<>> = none; the timestamp is not modelled)
SuccessResult(batch, txHash, status) ==
  [items |-> ItemIds(batch), txHash |-> txHash, status |-> status,
   errorMessage |-> <<>>]

\* an error object: message ("" = none) and logs (<<>> = none)
Err(message, logs) == [message |-> message, logs |-> logs]

\* a catch block that drops the logs of the error
ErrorMessageNoLogs(e) ==
  <<IF e.message # "" THEN e.message ELSE "Unknown error">>

\* the error message of the catch block, as the sequence of its parts
ErrorMessage(e) ==
  <<IF e.message # "" THEN e.message ELSE "Unknown error">>
    \o (IF e.logs # <<>> THEN <<" - Logs: ">> \o e.logs ELSE <<>>)

\* a catch block that records the failure without its message
FailedResultNoMessage(batch, e) ==
  [items |-> ItemIds(batch), txHash |-> 0, status |-> "Failed",
   errorMessage |-> <<>>]

\* the record pushed by the catch block
FailedResult(batch, e) ==
  [items |-> ItemIds(batch), txHash |-> 0, status |-> "Failed",
   errorMessage |-> ErrorMessage(e)]

\* a push at the front of the list
PushResultFront(res, r) == << r >> \o res

\* results.push(r)
PushResult(res, r) == Append(res, r)

(***************************************************************************)
(* SolanaSerializer: pure parts                                            *)
(***************************************************************************)
\* new web3.PublicKey(address) throws on a missing address
ValidPublicKey(address) == address # 0

AuthorizeIx(stake, cur, new, type) ==
  [program |-> "authorize", type |-> type, stakePubkey |-> stake,
   authorizedPubkey |-> cur, toPubkey |-> new, lamports |-> 0]

WithdrawIx(stake, authority, lamports) ==
  [program |-> "withdraw", type |-> "Withdraw", stakePubkey |-> stake,
   authorizedPubkey |-> authority, toPubkey |-> authority,
   lamports |-> lamports]

RECURSIVE AuthorizeIxsStakerOnly(_, _, _)
\* a loop that adds the Staker instruction only
AuthorizeIxsStakerOnly(pubkeys, cur, new) ==
  IF pubkeys = <<>> THEN <<>>
  ELSE << AuthorizeIx(Head(pubkeys), cur, new, "Staker") >>
       \o AuthorizeIxsStakerOnly(Tail(pubkeys), cur, new)

RECURSIVE AuthorizeIxs(_, _, _)
\* two instructions per stake account: Staker, then Withdrawer
AuthorizeIxs(pubkeys, cur, new) ==
  IF pubkeys = <<>> THEN <<>>
  ELSE << AuthorizeIx(Head(pubkeys), cur, new, "Staker"),
          AuthorizeIx(Head(pubkeys), cur, new, "Withdrawer") >>
       \o AuthorizeIxs(Tail(pubkeys), cur, new)

BuildBatchChangeAuthoritiesTx(pubkeys, cur, new, blockhash) ==
  [blockhash |-> blockhash, feePayer |-> cur,
   instructions |-> AuthorizeIxs(pubkeys, cur, new)]

\* totalAmount = accountInfo.sol_balance - 3000000
WithdrawAmount(accountInfo) == accountInfo.sol_balance - RENT_RESERVE

BuildInactiveAccountsWithdrawTx(accountsInfo, authority, blockhash) ==
  [blockhash |-> blockhash, feePayer |-> authority,
   instructions |->
     [k \in 1..Len(accountsInfo) |->
        WithdrawIx(accountsInfo[k].address, authority,
                   WithdrawAmount(accountsInfo[k]))]]

\* a signature: who signed which message
Sig(signer, msg) == [signer |-> signer, msg |-> msg]

\* transaction.addSignature(signerPubKey, sig); transaction.verifySignatures():
\* the fee payer is the only required signer of these transactions
VerifySignatures(message, sig, signerPubKey) ==
  /\ signerPubKey = message.feePayer
  /\ sig.signer = message.feePayer
  /\ sig.msg = message

\* sendSignedTransaction without the verification
MaySendUnchecked(message, sig, signerPubKey) == TRUE

\* the check of sendSignedTransaction before sendRawTransaction
MaySend(message, sig, signerPubKey) == VerifySignatures(message, sig, signerPubKey)

(***************************************************************************)
(* External collaborators                                                  *)
(***************************************************************************)
SuccessStates == {"COMPLETED", "BROADCASTING"}

FailureStates == {"BLOCKED", "CANCELLED", "FAILED", "REJECTED"}

IntermediateStates == {"SUBMITTED", "PENDING_SIGNATURE"}

\* the statuses the signing service can report next
NextStatuses(s) ==
  CASE s = "SUBMITTED" -> IntermediateStates \cup SuccessStates \cup FailureStates
    [] s = "PENDING_SIGNATURE" ->
         {"PENDING_SIGNATURE"} \cup SuccessStates \cup FailureStates
    [] s = "BROADCASTING" -> {"BROADCASTING", "COMPLETED", "FAILED"}
    [] OTHER -> {s}

\* a vault exists at the service only under a plain decimal id
IsVaultId(s) == s # <<>> /\ \A i \in 1..Len(s) : s[i] \in Digits

\* the deposit address of a vault
AddressOfVault(s) == 100 + ParseInt(s).val

\* what the service can put in signedMessages of a finished request
ResponseKinds ==
  {"ok", "absent", "empty", "nosig", "badsig", "othercontent", "mismatch"}

SignedMessages(kind, message) ==
  CASE kind = "ok" ->
         <<[content |-> message, signature |-> Sig(message.feePayer, message)]>>
    [] kind = "nosig" -> <<[content |-> message, signature |-> NoSig]>>
    [] kind = "badsig" ->
         <<[content |-> message, signature |-> Sig(message.feePayer + 1000, message)]>>
    [] kind = "othercontent" ->
         <<[content |-> NoTx, signature |-> Sig(message.feePayer, NoTx)]>>
    [] kind = "mismatch" ->
         <<[content |-> NoTx, signature |-> Sig(message.feePayer, message)]>>
    [] OTHER -> <<>>

Response(status, kind, message) ==
  [status |-> status, subStatus |-> IF status \in FailureStates THEN "SUB" ELSE "",
   hasSignedMessages |-> status \in SuccessStates /\ kind # "absent",
   signedMessages |-> IF status \in SuccessStates
                      THEN SignedMessages(kind, message) ELSE <<>>]

\* an external outcome other than the regular one uses one unit of the budget
Cost(regular) == IF regular THEN 0 ELSE 1

\* const operation = process.env.OPERATION || "change-authority"
Operation == IF envOperation = Unset THEN "change-authority" ELSE envOperation

(***************************************************************************)
(* Initial states                                                          *)
(***************************************************************************)
\* the batch-signing flow has not started
InitCorr ==
  /\ signBatch = <<>>
  /\ buildIndex = 0
  /\ txDataMap = <<>>
  /\ messagesForSigning = <<>>
  /\ signedMessages = <<>>
  /\ signedIndex = 0
  /\ batchTxResults = <<>>
  /\ batchSuccessCount = 0
  /\ batchFailureCount = 0
  /\ allTxResults = <<>>

\* no signing request has been polled
InitWait ==
  /\ lastStatus = ""
  /\ statusLog = <<>>
  /\ fetchedStatuses = <<>>

\* no result before getStakeAccountsForAddress returns
NoList == <<"<none>">>

\* getStakeAccountsForAddress has not been called
InitPages ==
  /\ pagePc = "idle"
  /\ currentPage = 0
  /\ allStakeAccounts = <<>>
  /\ pageCalls = <<>>
  /\ pageReplies = <<>>
  /\ listResult = NoList

\* the listing service after construction: empty queue, not processing
InitQueue ==
  /\ requestQueue = <<>>
  /\ processing = FALSE
  /\ now = 0
  /\ wakeAt = 0
  /\ started = <<>>
  /\ enqueued = 0
  /\ loops = 0

InitRun ==
  /\ InitCorr
  /\ InitQueue
  /\ InitWait
  /\ InitPages
  /\ pc = "new"
  /\ existingAuthorityAddress = 0
  /\ newAuthorityAddress = 0
  /\ stakeAccounts = <<>>
  /\ items = <<>>
  /\ batchSize = 0
  /\ batches = <<>>
  /\ batchIndex = 0
  /\ results = <<>>
  /\ totalSuccessCount = 0
  /\ totalFailureCount = 0
  /\ tx = NoTx
  /\ fbStatus = ""
  /\ txResponse = NoResponse
  /\ polls = 0
  /\ error = ""
  /\ resolveCalls = <<>>
  /\ listCalls = 0
  /\ blockhashFetches = 0
  /\ signRequests = <<>>
  /\ signFailed = {}
  /\ broadcasts = <<>>
  /\ report = <<>>

\* a run with a valid configuration over any listing
Init ==
  /\ InitRun
  /\ envOperation \in {"change-authority", "withdraw"}
  /\ envValid = TRUE
  /\ currentAuthorityVaultId = <<"0">>
  /\ newAuthorityVaultId = <<"1">>
  /\ chainAccounts \in UNION { Listings(n, MaxMixed) : n \in 0..MaxAccounts }
  /\ faultsLeft = MaxFaults

\* a run with any configuration over a short listing and no external failure
InitConfig ==
  /\ InitRun
  /\ envOperation \in {"change-authority", "withdraw", "Withdraw", "bogus", Unset}
  /\ envValid \in BOOLEAN
  /\ currentAuthorityVaultId \in Strings(MaxIdLen)
  /\ newAuthorityVaultId \in Strings(MaxIdLen)
  /\ chainAccounts \in UNION { Listings(n, 0) : n \in 0..1 }
  /\ faultsLeft = 0

(***************************************************************************)
(* Actions: configuration, resolution, listing                             *)
(***************************************************************************)
config == << envOperation, envValid, currentAuthorityVaultId,
             newAuthorityVaultId, chainAccounts >>

batchVars == << items, batchSize, batches, batchIndex, results,
                totalSuccessCount, totalFailureCount >>

signVars == << tx, fbStatus, txResponse, polls >>

netVars == << resolveCalls, listCalls, blockhashFetches, signRequests,
              signFailed, broadcasts, report >>

\* the error thrown by the constructor ("" = none)
ConstructorError(cur, new, op, valid) ==
  IF JsNot(cur) /\ op = Unset THEN "TypeError: toLowerCase of undefined"
  ELSE IF JsNot(cur) /\ ToLowerCase(op) = "withdraw"
    THEN "Current authority vault ID is required"
  ELSE IF JsNot(new) /\ op = Unset THEN "TypeError: toLowerCase of undefined"
  ELSE IF JsNot(new) /\ ToLowerCase(op) = "change-authority"
    THEN "New authority vault ID is required"
  ELSE IF ~valid THEN "Missing required environment variables"
  ELSE ""

\* new SolanaAuthorityOrchestrator(CURRENT_AUTHORITY_VAULT_ID, NEW_AUTHORITY_VAULT_ID)
Construct ==
  /\ pc = "new"
  /\ LET e == ConstructorError(currentAuthorityVaultId, newAuthorityVaultId,
                               envOperation, envValid)
     IN IF e # "" THEN pc' = "aborted" /\ error' = e
        ELSE pc' = "main" /\ error' = error
  /\ UNCHANGED << pageVars, waitVars, queueVars, corrVars, config, existingAuthorityAddress, newAuthorityAddress,
                  stakeAccounts, batchVars, signVars, faultsLeft, netVars >>

\* main: dispatch on the operation
MainDispatch ==
  /\ pc = "main"
  /\ IF Operation = "change-authority" THEN pc' = "validate" /\ error' = error
     ELSE IF Operation = "withdraw" THEN pc' = "resolveCur" /\ error' = error
     ELSE pc' = "aborted" /\ error' = "Invalid operation specified"
  /\ UNCHANGED << pageVars, waitVars, queueVars, corrVars, config, existingAuthorityAddress, newAuthorityAddress,
                  stakeAccounts, batchVars, signVars, faultsLeft, netVars >>

\* the checks with the equality taken on the raw strings
VaultOrderErrorRawEq(cur, new) ==
  IF JsGt(ParseInt(cur), ParseInt(new))
    THEN "New authority vault account has to be a newer account"
  ELSE IF cur = new
    THEN "New authority vault account has to be a different account"
  ELSE ""

\* the error of the two vault id checks of changeAuthorities ("" = none)
VaultOrderError(cur, new) ==
  IF JsGt(ParseInt(cur), ParseInt(new))
    THEN "New authority vault account has to be a newer account"
  ELSE IF JsStrictEq(ParseInt(cur), ParseInt(new))
    THEN "New authority vault account has to be a different account"
  ELSE ""

\* changeAuthorities: the vault id checks before the first await
ValidateVaultOrder ==
  /\ pc = "validate"
  /\ LET e == VaultOrderError(currentAuthorityVaultId, newAuthorityVaultId)
     IN IF e # "" THEN pc' = "aborted" /\ error' = e
        ELSE pc' = "resolveCur" /\ error' = error
  /\ UNCHANGED << pageVars, waitVars, queueVars, corrVars, config, existingAuthorityAddress, newAuthorityAddress,
                  stakeAccounts, batchVars, signVars, faultsLeft, netVars >>

\* an orchestrator that goes on without the address
NotResolvedNever(address) == FALSE

\* a check with its condition inverted
NotResolvedInverted(address) == address # 0

\* if (!existingAuthorityAddress), if (!newAuthorityAddress), if (!authorityAddress)
NotResolved(address) == address = 0

\* getAddressForVault: the address, or undefined (0) on any failure
GetAddressForVault(vaultAccountId, found) ==
  IF found THEN AddressOfVault(vaultAccountId) ELSE 0

ResolveCurrent ==
  /\ pc = "resolveCur"
  /\ resolveCalls' = Append(resolveCalls, currentAuthorityVaultId)
  /\ \E found \in BOOLEAN :
       /\ found => IsVaultId(currentAuthorityVaultId)
       /\ Cost(found \/ ~IsVaultId(currentAuthorityVaultId)) <= faultsLeft
       /\ faultsLeft' =
            faultsLeft - Cost(found \/ ~IsVaultId(currentAuthorityVaultId))
       /\ existingAuthorityAddress' =
            GetAddressForVault(currentAuthorityVaultId, found)
       /\ IF NotResolved(GetAddressForVault(currentAuthorityVaultId, found))
          THEN /\ pc' = "aborted"
               /\ error' = IF Operation = "change-authority"
                           THEN "No existing authority found for vault ID"
                           ELSE "No authority found for vault ID"
          ELSE /\ pc' = IF Operation = "change-authority"
                        THEN "resolveNew" ELSE "list"
               /\ error' = error
  /\ UNCHANGED << pageVars, waitVars, queueVars, corrVars, config, newAuthorityAddress, stakeAccounts, batchVars,
                  signVars, listCalls, blockhashFetches, signRequests,
                  signFailed, broadcasts, report >>

ResolveNew ==
  /\ pc = "resolveNew"
  /\ resolveCalls' = Append(resolveCalls, newAuthorityVaultId)
  /\ \E found \in BOOLEAN :
       /\ found => IsVaultId(newAuthorityVaultId)
       /\ Cost(found \/ ~IsVaultId(newAuthorityVaultId)) <= faultsLeft
       /\ faultsLeft' = faultsLeft - Cost(found \/ ~IsVaultId(newAuthorityVaultId))
       /\ newAuthorityAddress' = GetAddressForVault(newAuthorityVaultId, found)
       /\ IF NotResolved(GetAddressForVault(newAuthorityVaultId, found))
          THEN /\ pc' = "aborted"
               /\ error' = "No new authority found for vault ID"
          ELSE /\ pc' = "list"
               /\ error' = error
  /\ UNCHANGED << pageVars, waitVars, queueVars, corrVars, config, existingAuthorityAddress, stakeAccounts, batchVars,
                  signVars, listCalls, blockhashFetches, signRequests,
                  signFailed, broadcasts, report >>

\* an orchestrator without the check of the listing
NoneListedNever(accounts) == FALSE

\* if (!stakeAccounts || stakeAccounts.length === 0)
NoneListed(accounts) == Len(accounts) = 0

\* getStakeAccountsForAddress and the check that something was listed
ListAccounts ==
  /\ pc = "list"
  /\ listCalls' = listCalls + 1
  /\ \E ok \in BOOLEAN :
       /\ Cost(ok) <= faultsLeft
       /\ faultsLeft' = faultsLeft - Cost(ok)
       /\ IF ~ok
          THEN /\ stakeAccounts' = stakeAccounts
               /\ pc' = "aborted"
               /\ error' = "Solscan API error"
          ELSE /\ stakeAccounts' = chainAccounts
               /\ IF NoneListed(chainAccounts)
                  THEN pc' = "aborted" /\ error' = "No stake accounts found for address"
                  ELSE pc' = "filter" /\ error' = error
  /\ UNCHANGED << pageVars, waitVars, queueVars, corrVars, config, existingAuthorityAddress, newAuthorityAddress,
                  batchVars, signVars, resolveCalls, blockhashFetches,
                  signRequests, signFailed, broadcasts, report >>

\* stakeAccounts.filter((account) => account.pubkey && account.pubkey.address)
IsValidStakeAccount(account) == account.address # 0

ValidStakeAccounts(accounts) == SelectSeq(accounts, IsValidStakeAccount)

\* a filter that keeps every listed account
IsInactiveAny(account) == TRUE

\* stakeAccounts.filter((account) => account.status === "inactive")
IsInactive(account) == account.status = "inactive"

InactiveAccounts(accounts) == SelectSeq(accounts, IsInactive)

\* the cap each operation passes to processBatchedTransactions
CapOf(op) ==
  IF op = "change-authority" THEN MAX_ACCOUNTS_PER_AUTHORITY_TX
  ELSE MAX_ACCOUNTS_PER_WITHDRAW_TX

\* the accounts each operation keeps for processBatchedTransactions
KeptAccounts(op, accounts) ==
  IF op = "change-authority"
  THEN ValidStakeAccounts(accounts)
  ELSE InactiveAccounts(accounts)

\* an orchestrator without the check of the filtered list
NoneKeptNever(kept) == FALSE

\* if (validStakeAccounts.length === 0), if (inactiveAccounts.length === 0)
NoneKept(kept) == Len(kept) = 0

\* the filter of each operation, its empty check, and the call of
\* processBatchedTransactions
FilterAccounts ==
  /\ pc = "filter"
  /\ LET kept == KeptAccounts(Operation, stakeAccounts)
     IN IF NoneKept(kept)
        THEN /\ UNCHANGED << items, batchSize >>
             /\ IF Operation = "change-authority"
                THEN pc' = "aborted" /\ error' = "No valid stake accounts found"
                ELSE pc' = "done" /\ error' = error
        ELSE /\ items' = kept
             /\ batchSize' = CapOf(Operation)
             /\ pc' = "split"
             /\ error' = error
  /\ UNCHANGED << pageVars, waitVars, queueVars, corrVars, config, existingAuthorityAddress, newAuthorityAddress,
                  stakeAccounts, batches, batchIndex, results,
                  totalSuccessCount, totalFailureCount, signVars, faultsLeft,
                  netVars >>

\* processBatchedTransactions: the partition loop
SplitBatches ==
  /\ pc = "split"
  /\ batches' = Batches(items, batchSize)
  /\ pc' = "group"
  /\ UNCHANGED << pageVars, waitVars, queueVars, corrVars, config, existingAuthorityAddress, newAuthorityAddress,
                  stakeAccounts, items, batchSize, batchIndex, results,
                  totalSuccessCount, totalFailureCount, signVars, faultsLeft,
                  error, netVars >>

(***************************************************************************)
(* Actions: the batch loop                                                 *)
(***************************************************************************)
\* const batch = batches[batchIndex]
CurrentBatch == batches[batchIndex + 1]

\* a catch block that records nothing
FailGroupNoRecord(e) ==
  /\ results' = results
  /\ totalFailureCount' = totalFailureCount + Len(CurrentBatch)
  /\ totalSuccessCount' = totalSuccessCount
  /\ batchIndex' = batchIndex + 1
  /\ pc' = "group"
  /\ tx' = NoTx
  /\ fbStatus' = ""
  /\ txResponse' = NoResponse
  /\ polls' = 0

\* a catch block that lets the error escape from the loop
FailGroupRethrow(e) ==
  /\ results' = results
  /\ totalFailureCount' = totalFailureCount
  /\ totalSuccessCount' = totalSuccessCount
  /\ batchIndex' = batchIndex
  /\ pc' = "aborted"
  /\ tx' = NoTx
  /\ fbStatus' = ""
  /\ txResponse' = NoResponse
  /\ polls' = 0

\* the catch block of the loop: one Failed record, then the next group
FailGroup(e) ==
  /\ results' = PushResult(results, FailedResult(CurrentBatch, e))
  /\ totalFailureCount' = totalFailureCount + Len(CurrentBatch)
  /\ totalSuccessCount' = totalSuccessCount
  /\ batchIndex' = batchIndex + 1
  /\ pc' = "group"
  /\ tx' = NoTx
  /\ fbStatus' = ""
  /\ txResponse' = NoResponse
  /\ polls' = 0

\* a success path that moves to the next group before the result is pushed
SucceedGroupEarly(txHash, status) ==
  /\ results' = results
  /\ totalSuccessCount' = totalSuccessCount + Len(CurrentBatch)
  /\ totalFailureCount' = totalFailureCount
  /\ batchIndex' = batchIndex + 1
  /\ pc' = "group"
  /\ tx' = NoTx
  /\ fbStatus' = ""
  /\ txResponse' = NoResponse
  /\ polls' = 0

\* a success path that counts the group instead of its accounts
SucceedGroupCountsGroups(txHash, status) ==
  /\ results' = PushResult(results, SuccessResult(CurrentBatch, txHash, status))
  /\ totalSuccessCount' = totalSuccessCount + 1
  /\ totalFailureCount' = totalFailureCount
  /\ batchIndex' = batchIndex + 1
  /\ pc' = "group"
  /\ tx' = NoTx
  /\ fbStatus' = ""
  /\ txResponse' = NoResponse
  /\ polls' = 0

\* the success path of the loop: one record, then the next group
SucceedGroup(txHash, status) ==
  /\ results' = PushResult(results, SuccessResult(CurrentBatch, txHash, status))
  /\ totalSuccessCount' = totalSuccessCount + Len(CurrentBatch)
  /\ totalFailureCount' = totalFailureCount
  /\ batchIndex' = batchIndex + 1
  /\ pc' = "group"
  /\ tx' = NoTx
  /\ fbStatus' = ""
  /\ txResponse' = NoResponse
  /\ polls' = 0

\* a loop that stops one group early
LoopDoneEarly(index, all) == ~(index + 1 < Len(all))

\* for (let batchIndex = 0; batchIndex < batches.length; batchIndex++):
\* the loop ends when the condition fails
LoopDone(index, all) == ~(index < Len(all))

AllValidKeys(batch) == \A k \in 1..Len(batch) : ValidPublicKey(batch[k].address)

\* a builder that keeps the blockhash of the first fetch for every group
BuildTxCachedBlockhash(op, batch, cur, new, blockhash) ==
  IF op = "change-authority"
  THEN BuildBatchChangeAuthoritiesTx(ItemIds(batch), cur, new, 1)
  ELSE BuildInactiveAccountsWithdrawTx(batch, cur, 1)

\* the transaction each operation builds for a batch
BuildTx(op, batch, cur, new, blockhash) ==
  IF op = "change-authority"
  THEN BuildBatchChangeAuthoritiesTx(ItemIds(batch), cur, new, blockhash)
  ELSE BuildInactiveAccountsWithdrawTx(batch, cur, blockhash)

\* start of an iteration: processTransaction up to the built transaction.
\* changeAuthorities converts the addresses before the blockhash is fetched,
\* buildInactiveAccountsWithdrawTx after it.
BuildGroup ==
  /\ pc = "group"
  /\ ~LoopDone(batchIndex, batches)
  /\ IF Operation = "change-authority" /\ ~AllValidKeys(CurrentBatch)
     THEN /\ FailGroup(Err("Invalid public key input", <<>>))
          /\ UNCHANGED << blockhashFetches, faultsLeft >>
     ELSE /\ blockhashFetches' = blockhashFetches + 1
          /\ \E ok \in BOOLEAN :
               /\ Cost(ok) <= faultsLeft
               /\ faultsLeft' = faultsLeft - Cost(ok)
               /\ IF ~ok
                  THEN FailGroup(Err("failed to get recent blockhash", <<>>))
                  ELSE IF ~AllValidKeys(CurrentBatch)
                  THEN FailGroup(Err("Invalid public key input", <<>>))
                  ELSE /\ tx' = BuildTx(Operation, CurrentBatch,
                                        existingAuthorityAddress,
                                        newAuthorityAddress, blockhashFetches + 1)
                       /\ pc' = "sign"
                       /\ UNCHANGED << results, totalSuccessCount,
                                       totalFailureCount, batchIndex, fbStatus,
                                       txResponse, polls >>
  /\ UNCHANGED << pageVars, waitVars, queueVars, corrVars, config, existingAuthorityAddress, newAuthorityAddress,
                  stakeAccounts, items, batchSize, batches, error,
                  resolveCalls, listCalls, signRequests, signFailed,
                  broadcasts, report >>

\* a request that carries the serialized transaction twice
SigningRequestDoubled(group, content, vaultAccountId) ==
  [group |-> group, messages |-> << content, content >>,
   source |-> vaultAccountId]

\* the createTransaction request of signTransaction([{content}], vaultId):
\* a raw signing request of the vault with the given messages
SigningRequest(group, content, vaultAccountId) ==
  [group |-> group, messages |-> << content >>, source |-> vaultAccountId]

\* signTransaction: createTransaction with the one serialized message
CreateSigningRequest ==
  /\ pc = "sign"
  /\ signRequests' = Append(signRequests,
       SigningRequest(batchIndex + 1, tx, currentAuthorityVaultId))
  /\ lastStatus' = ""
  /\ statusLog' = <<>>
  /\ fetchedStatuses' = <<>>
  /\ \E outcome \in {"created", "noid", "throws"} :
       /\ Cost(outcome = "created") <= faultsLeft
       /\ faultsLeft' = faultsLeft - Cost(outcome = "created")
       /\ CASE outcome = "created" ->
                 /\ fbStatus' = "SUBMITTED"
                 /\ pc' = "fetch"
                 /\ UNCHANGED << results, totalSuccessCount, totalFailureCount,
                                 batchIndex, tx, txResponse, polls >>
            [] outcome = "noid" ->
                 FailGroup(Err("Transaction response is undefined", <<>>))
            [] outcome = "throws" ->
                 FailGroup(Err("createTransaction failed", <<>>))
  /\ UNCHANGED << pageVars, queueVars, corrVars, config, existingAuthorityAddress, newAuthorityAddress,
                  stakeAccounts, items, batchSize, batches, error,
                  resolveCalls, listCalls, blockhashFetches, signFailed,
                  broadcasts, report >>

\* a loop that gives up once the request is pending signature
KeepsPollingUntilPending(status) == status = "SUBMITTED"

\* while (status !== Completed && status !== Broadcasting)
KeepsPolling(status) == status \notin SuccessStates

\* a switch without the Blocked case
ThrowsOnStatusNoBlocked(status) == status \in FailureStates \ {"BLOCKED"}

\* the switch after a re-fetch throws on these
ThrowsOnStatus(status) == status \in FailureStates

\* the error thrown by the switch: its text names the status and the
\* sub-status the service reported
StatusError(resp) ==
  [message |-> <<"Signing request failed/blocked/cancelled: status is ",
                 resp.status, "Sub-Status: ", resp.subStatus>>,
   logs |-> <<>>]

\* catch (e) { console.error(...) }: the error is logged and dropped, and
\* waitForSignature returns undefined
WaitForSignatureCatch(e) == NoResponse

\* signTransaction: if (!txResponse || !txResponse.signedMessages) throw
SignTransactionError(resp) ==
  IF resp = NoResponse \/ ~resp.hasSignedMessages
  THEN Err("Transaction response is undefined", <<>>)
  ELSE Err("", <<>>)

\* a loop that logs the status after every fetch
LogsStatusAlways(status, last) == TRUE

\* if (txResponse.data.status !== lastStatus)
LogsStatus(status, last) == status # last

\* the log line and lastStatus after a fetch: the first status is always
\* logged, a later one when it differs from lastStatus
LogStatus(first, s) ==
  /\ statusLog' = IF first THEN << s >>
                  ELSE IF LogsStatus(s, lastStatus) THEN Append(statusLog, s)
                  ELSE statusLog
  /\ lastStatus' = IF first \/ LogsStatus(s, lastStatus) THEN s
                   ELSE lastStatus

\* one getTransaction of waitForSignature; `first` is the fetch before the loop
FetchStatus(first) ==
  /\ \E ok \in BOOLEAN, s \in NextStatuses(fbStatus), kind \in ResponseKinds :
       LET regular == /\ ok
                      /\ (s \in FailureStates => s = fbStatus)
                      /\ (s \in SuccessStates => kind = "ok")
       IN
       /\ ~ok => (s = fbStatus /\ kind = "ok")
       /\ s \notin SuccessStates => kind = "ok"
       /\ polls >= MaxPolls => (~ok \/ s \notin IntermediateStates)
       /\ Cost(regular) <= faultsLeft
       /\ faultsLeft' = faultsLeft - Cost(regular)
       /\ IF ~ok
          THEN \* getTransaction throws: caught, waitForSignature returns undefined
               /\ FailGroup(SignTransactionError(WaitForSignatureCatch(
                              Err("getTransaction failed", <<>>))))
               /\ signFailed' = signFailed
               /\ UNCHANGED waitVars
          ELSE /\ LogStatus(first, s)
               /\ fetchedStatuses' = Append(fetchedStatuses, s)
               /\ signFailed' = IF s \in FailureStates
                                THEN signFailed \cup {batchIndex + 1}
                                ELSE signFailed
               /\ IF ~first /\ ThrowsOnStatus(s)
                  THEN FailGroup(SignTransactionError(WaitForSignatureCatch(
                                   StatusError(Response(s, kind, tx)))))
                  ELSE /\ fbStatus' = s
                       /\ polls' = polls + 1
                       /\ txResponse' = Response(s, kind, tx)
                       /\ pc' = IF KeepsPolling(s) THEN "poll" ELSE "send"
                       /\ UNCHANGED << results, totalSuccessCount,
                                       totalFailureCount, batchIndex, tx >>
  /\ UNCHANGED << pageVars, queueVars, corrVars, config, existingAuthorityAddress, newAuthorityAddress,
                  stakeAccounts, items, batchSize, batches, error,
                  resolveCalls, listCalls, blockhashFetches, signRequests,
                  broadcasts, report >>

\* waitForSignature: an iteration of the loop, after any number of earlier
\* ones, whose re-fetch finds the request still in an intermediate state.
\* The loop has no counter; polls stops counting at MaxPolls + 1.
PollBeyond ==
  /\ pc = "poll"
  /\ polls >= MaxPolls
  /\ \E s \in NextStatuses(fbStatus) \cap IntermediateStates :
       /\ KeepsPolling(s)
       /\ ~ThrowsOnStatus(s)
       /\ fbStatus' = s
       /\ txResponse' = Response(s, "ok", tx)
       /\ LogStatus(FALSE, s)
       /\ fetchedStatuses' = IF s # lastStatus
                             THEN Append(fetchedStatuses, s)
                             ELSE fetchedStatuses
  /\ polls' = MaxPolls + 1
  /\ pc' = "poll"
  /\ UNCHANGED << pageVars, queueVars, corrVars, config, existingAuthorityAddress,
                  newAuthorityAddress, stakeAccounts, batchVars, tx,
                  faultsLeft, error, netVars >>

\* waitForSignature: the fetch before the loop
FirstFetch == pc = "fetch" /\ FetchStatus(TRUE)

\* waitForSignature: one iteration of the loop (delay, re-fetch, switch)
Poll == pc = "poll" /\ FetchStatus(FALSE)

\* checks that let any non-empty list of signed messages through
ResponseErrorUnchecked(resp, message, signer) ==
  IF ~resp.hasSignedMessages THEN "Transaction response is undefined"
  ELSE IF Len(resp.signedMessages) = 0
    THEN "No signed messages returned from Fireblocks"
  ELSE ""

\* the error of the checks between the signing response and the broadcast
\* ("" = none): signTransaction, then the orchestrator, then verifySignatures
ResponseError(resp, message, signer) ==
  IF ~resp.hasSignedMessages THEN "Transaction response is undefined"
  ELSE IF Len(resp.signedMessages) = 0
    THEN "No signed messages returned from Fireblocks"
  ELSE IF resp.signedMessages[1].signature = NoSig
    THEN "Missing signature from Fireblocks"
  ELSE IF ~MaySend(message, resp.signedMessages[1].signature, signer)
    THEN "Transaction signature verification failed"
  ELSE ""

\* the id the network assigns to an accepted transaction
TxIdOf(message) == message.blockhash

\* the response checks, sendSignedTransaction and the push of the result;
\* waitForSignature has returned and its locals are gone
SendSigned ==
  /\ pc = "send"
  /\ lastStatus' = ""
  /\ statusLog' = <<>>
  /\ fetchedStatuses' = <<>>
  /\ LET e == ResponseError(txResponse, tx, existingAuthorityAddress)
     IN IF e # ""
        THEN /\ FailGroup(Err(e, <<>>))
             /\ UNCHANGED << broadcasts, faultsLeft >>
        ELSE /\ broadcasts' = Append(broadcasts,
                  [group |-> batchIndex + 1, message |-> tx,
                   content |-> txResponse.signedMessages[1].content,
                   signature |-> txResponse.signedMessages[1].signature,
                   signer |-> existingAuthorityAddress])
             /\ \E outcome \in {"accepted", "rejected", "simulationFailed"} :
                  /\ Cost(outcome = "accepted") <= faultsLeft
                  /\ faultsLeft' = faultsLeft - Cost(outcome = "accepted")
                  /\ CASE outcome = "accepted" -> SucceedGroup(TxIdOf(tx), "Success")
                       [] outcome = "rejected" ->
                            FailGroup(Err("failed to send transaction", <<>>))
                       [] outcome = "simulationFailed" ->
                            FailGroup(Err("Transaction simulation failed",
                                          <<"Program log: error">>))
  /\ UNCHANGED << pageVars, queueVars, corrVars, config, existingAuthorityAddress, newAuthorityAddress,
                  stakeAccounts, items, batchSize, batches, error,
                  resolveCalls, listCalls, blockhashFetches, signRequests,
                  signFailed, report >>

\* processBatchedTransactions returns after the last group
ReturnResults ==
  /\ pc = "group"
  /\ LoopDone(batchIndex, batches)
  /\ pc' = "report"
  /\ UNCHANGED << pageVars, waitVars, queueVars, corrVars, config, existingAuthorityAddress, newAuthorityAddress,
                  stakeAccounts, batchVars, signVars, faultsLeft, error,
                  netVars >>

\* a transformation that keeps the rows of the successful groups only
ReportRowsSuccessOnly(res, authority) ==
  LET kept == SelectSeq(res, LAMBDA r : r.status = "Success")
  IN [k \in 1..Len(kept) |->
        [stakeAccounts |-> kept[k].items, authority |-> authority,
         txHash |-> kept[k].txHash, status |-> kept[k].status,
         errorMessage |-> kept[k].errorMessage]]

\* const txResults = results.map(result => ({stakeAccounts: result.items, ...}))
ReportRows(res, authority) ==
  [k \in 1..Len(res) |->
     [stakeAccounts |-> res[k].items, authority |-> authority,
      txHash |-> res[k].txHash, status |-> res[k].status,
      errorMessage |-> res[k].errorMessage]]

\* the transformation of the results and write...ResultsToCsv: one row per
\* result
WriteReport ==
  /\ pc = "report"
  /\ report' = ReportRows(results, existingAuthorityAddress)
  /\ \E ok \in BOOLEAN :
       /\ Cost(ok) <= faultsLeft
       /\ faultsLeft' = faultsLeft - Cost(ok)
       /\ IF ok THEN pc' = "done" /\ error' = error
          ELSE pc' = "aborted" /\ error' = "report could not be written"
  /\ UNCHANGED << pageVars, waitVars, queueVars, corrVars, config, existingAuthorityAddress, newAuthorityAddress,
                  stakeAccounts, batchVars, signVars, resolveCalls, listCalls,
                  blockhashFetches, signRequests, signFailed, broadcasts >>

Next ==
  \/ Construct
  \/ MainDispatch
  \/ ValidateVaultOrder
  \/ ResolveCurrent
  \/ ResolveNew
  \/ ListAccounts
  \/ FilterAccounts
  \/ SplitBatches
  \/ BuildGroup
  \/ CreateSigningRequest
  \/ FirstFetch
  \/ Poll
  \/ SendSigned
  \/ ReturnResults
  \/ WriteReport

Spec == Init /\ [][Next]_vars

SpecConfig == InitConfig /\ [][Next]_vars

\* a run whose signing requests may stay in intermediate states for any
\* number of polls
NextPoll ==
  \/ Next
  \/ PollBeyond

SpecPoll == Init /\ [][NextPoll]_vars

\* the same run when every external call returns and every signing request
\* eventually reaches a terminal state: a step of Next is always possible
\* until the run ends, and is eventually taken
SpecLive == Init /\ [][NextPoll]_vars /\ WF_vars(Next)

\* processBatchedTransactions entered with n items and any batch size
InitPartition ==
  /\ InitCorr
  /\ InitQueue
  /\ InitWait
  /\ InitPages
  /\ pc = "split"
  /\ envOperation = "change-authority"
  /\ envValid = TRUE
  /\ currentAuthorityVaultId = <<"0">>
  /\ newAuthorityVaultId = <<"1">>
  /\ \E n \in 0..MaxItems :
       /\ chainAccounts = [i \in 1..n |-> KindAccount("rich", i)]
       /\ stakeAccounts = chainAccounts
       /\ items = chainAccounts
  /\ batchSize \in 1..MaxBatchSize
  /\ existingAuthorityAddress = AddressOfVault(currentAuthorityVaultId)
  /\ newAuthorityAddress = AddressOfVault(newAuthorityVaultId)
  /\ batches = <<>>
  /\ batchIndex = 0
  /\ results = <<>>
  /\ totalSuccessCount = 0
  /\ totalFailureCount = 0
  /\ tx = NoTx
  /\ fbStatus = ""
  /\ txResponse = NoResponse
  /\ polls = 0
  /\ faultsLeft = 0
  /\ error = ""
  /\ resolveCalls = <<currentAuthorityVaultId, newAuthorityVaultId>>
  /\ listCalls = 1
  /\ blockhashFetches = 0
  /\ signRequests = <<>>
  /\ signFailed = {}
  /\ broadcasts = <<>>
  /\ report = <<>>

NextPartition == SplitBatches

SpecPartition == InitPartition /\ [][NextPartition]_vars

TypeOK == pc \in {"new", "main", "validate", "resolveCur", "resolveNew", "list",
                  "filter", "split", "group", "sign", "fetch", "poll", "send",
                  "report", "done", "aborted", "bsBuild", "bsSign",
                  "bsCorrelate", "bsReport"}


(***************************************************************************)
(* The batch-signing variant of changeAuthorities: one transaction per     *)
(* stake account, all contents of a batch in one signing request, and the  *)
(* returned signed messages matched to the transactions by content.        *)
(***************************************************************************)
\* buildChangeAuthoritiesTx: Staker and Withdrawer instructions of one account
BuildChangeAuthoritiesTx(stake, cur, new, blockhash) ==
  [blockhash |-> blockhash, feePayer |-> cur,
   instructions |-> << AuthorizeIx(stake, cur, new, "Staker"),
                       AuthorizeIx(stake, cur, new, "Withdrawer") >>]

\* Map.prototype.has
MapHas(map, key) == \E i \in 1..Len(map) : map[i].key = key

\* Map.prototype.get of a key the map has
MapGet(map, key) ==
  map[CHOOSE i \in 1..Len(map) : map[i].key = key].value

\* Map.prototype.set: a new key goes last, a known key keeps its place
MapSet(map, key, value) ==
  IF MapHas(map, key)
  THEN [i \in 1..Len(map) |->
          IF map[i].key = key THEN [key |-> key, value |-> value] ELSE map[i]]
  ELSE Append(map, [key |-> key, value |-> value])

\* Array.from(map.keys())
MapKeys(map) == [i \in 1..Len(map) |-> map[i].key]

\* a content the batch never submitted
ForeignContent == [blockhash |-> 0, feePayer |-> 999, instructions |-> <<>>]

\* !txContent: an absent or empty content
NoContent(content) == content = NoTx

\* one row of batchTxResults (stakeAccount 0 = "Unknown", txHash 0 = none)
TxResult(stakeAccount, txHash, status, errorMessage) ==
  [stakeAccount |-> stakeAccount, txHash |-> txHash, status |-> status,
   errorMessage |-> errorMessage]

\* one iteration of the build loop of a batch
BsBuildOne ==
  /\ pc = "bsBuild"
  /\ buildIndex < Len(signBatch)
  /\ LET stakeAccount == signBatch[buildIndex + 1]
     IN IF ~ValidPublicKey(stakeAccount.address)
        THEN /\ totalFailureCount' = totalFailureCount + 1
             /\ UNCHANGED << txDataMap, blockhashFetches, faultsLeft >>
        ELSE /\ blockhashFetches' = blockhashFetches + 1
             /\ \E ok \in BOOLEAN :
                  /\ Cost(ok) <= faultsLeft
                  /\ faultsLeft' = faultsLeft - Cost(ok)
                  /\ IF ok
                     THEN /\ txDataMap' =
                               LET serializedTransaction ==
                                     BuildChangeAuthoritiesTx(
                                       stakeAccount.address,
                                       existingAuthorityAddress,
                                       newAuthorityAddress,
                                       blockhashFetches + 1)
                               IN MapSet(txDataMap, serializedTransaction,
                                    [serializedTransaction |->
                                       serializedTransaction,
                                     stakeAccountPubKey |->
                                       stakeAccount.address])
                          /\ totalFailureCount' = totalFailureCount
                     ELSE /\ txDataMap' = txDataMap
                          /\ totalFailureCount' = totalFailureCount + 1
  /\ buildIndex' = buildIndex + 1
  /\ UNCHANGED << pageVars, waitVars, queueVars, pc, config, existingAuthorityAddress, newAuthorityAddress,
                  stakeAccounts, items, batchSize, batches, batchIndex,
                  results, totalSuccessCount, signVars, error, resolveCalls,
                  listCalls, signRequests, signFailed, broadcasts, report,
                  signBatch, messagesForSigning, signedMessages, signedIndex,
                  batchTxResults, batchSuccessCount, batchFailureCount,
                  allTxResults >>

\* after the build loop: a batch without a transaction is skipped
BsBuildDone ==
  /\ pc = "bsBuild"
  /\ buildIndex >= Len(signBatch)
  /\ IF Len(txDataMap) = 0
     THEN pc' = "bsReport" /\ messagesForSigning' = messagesForSigning
     ELSE pc' = "bsSign" /\ messagesForSigning' = MapKeys(txDataMap)
  /\ UNCHANGED << pageVars, waitVars, queueVars, config, existingAuthorityAddress, newAuthorityAddress,
                  stakeAccounts, batchVars, signVars, faultsLeft, error,
                  netVars, signBatch, buildIndex, txDataMap, signedMessages,
                  signedIndex, batchTxResults, batchSuccessCount,
                  batchFailureCount, allTxResults >>

\* what the signing service can put in one signed message for these contents
SignedMessageChoices(contents, signer) ==
  { [content |-> c, signature |-> g] :
      c \in { contents[i] : i \in 1..Len(contents) } \cup {ForeignContent, NoTx},
      g \in {"valid", "none", "bad"} }

\* the signature of a signed message of the service
SignatureOf(sm, signer) ==
  CASE sm.signature = "valid" -> Sig(signer, sm.content)
    [] sm.signature = "bad" -> Sig(signer + 1000, sm.content)
    [] OTHER -> NoSig

\* one signed message per content, in the order of the request
RegularSigned(contents) ==
  [i \in 1..Len(contents) |-> [content |-> contents[i], signature |-> "valid"]]

\* signTransaction with all the contents of the batch, and the checks of the
\* response; an error ends the batch in the outer catch block
BsSign ==
  /\ pc = "bsSign"
  /\ signRequests' = Append(signRequests,
       [group |-> 1, messages |-> messagesForSigning,
        source |-> currentAuthorityVaultId])
  /\ \E throws \in BOOLEAN, n \in 0..MaxSigned :
     \E resp \in [1..n -> SignedMessageChoices(messagesForSigning,
                                                existingAuthorityAddress)] :
       LET regular == ~throws /\ resp = RegularSigned(messagesForSigning)
       IN /\ throws => resp = <<>>
          /\ Cost(regular) <= faultsLeft
          /\ faultsLeft' = faultsLeft - Cost(regular)
          /\ IF throws \/ Len(resp) = 0
             THEN /\ pc' = "bsReport"
                  /\ signedMessages' = signedMessages
             ELSE /\ pc' = "bsCorrelate"
                  /\ signedMessages' = resp
  /\ signedIndex' = 0
  /\ batchTxResults' = <<>>
  /\ batchSuccessCount' = 0
  /\ batchFailureCount' = 0
  /\ UNCHANGED << pageVars, waitVars, queueVars, config, existingAuthorityAddress, newAuthorityAddress,
                  stakeAccounts, batchVars, signVars, error, resolveCalls,
                  listCalls, blockhashFetches, signFailed, broadcasts, report,
                  signBatch, buildIndex, txDataMap, messagesForSigning,
                  allTxResults >>

\* a failed signed message: one Failed row
BsFail(stakeAccount, errorMessage) ==
  /\ batchFailureCount' = batchFailureCount + 1
  /\ batchSuccessCount' = batchSuccessCount
  /\ batchTxResults' =
       Append(batchTxResults, TxResult(stakeAccount, 0, "Failed", errorMessage))

\* a signed message is matched to a transaction when the map has its content
Matches(map, txContent) == MapHas(map, txContent)

\* one iteration of the loop over the signed messages
BsCorrelate ==
  /\ pc = "bsCorrelate"
  /\ signedIndex < Len(signedMessages)
  /\ LET signedMessage == signedMessages[signedIndex + 1]
         txContent == signedMessage.content
         signatureHex == SignatureOf(signedMessage, existingAuthorityAddress)
     IN IF NoContent(txContent)
        THEN /\ BsFail(0, <<"Missing transaction content in signed message">>)
             /\ UNCHANGED << broadcasts, faultsLeft >>
        ELSE IF ~Matches(txDataMap, txContent)
        THEN /\ BsFail(0, <<"No matching transaction data found">>)
             /\ UNCHANGED << broadcasts, faultsLeft >>
        ELSE LET txData == MapGet(txDataMap, txContent)
             IN IF signatureHex = NoSig
                THEN /\ BsFail(txData.stakeAccountPubKey,
                               <<"Missing signature from Fireblocks">>)
                     /\ UNCHANGED << broadcasts, faultsLeft >>
                ELSE IF ~MaySend(txData.serializedTransaction, signatureHex,
                                 existingAuthorityAddress)
                THEN /\ BsFail(txData.stakeAccountPubKey,
                               ErrorMessage(Err(
                                 "Transaction signature verification failed",
                                 <<>>)))
                     /\ UNCHANGED << broadcasts, faultsLeft >>
                ELSE /\ broadcasts' = Append(broadcasts,
                          [group |-> 1,
                           message |-> txData.serializedTransaction,
                           content |-> txContent,
                           signature |-> signatureHex,
                           signer |-> existingAuthorityAddress])
                     /\ \E accepted \in BOOLEAN :
                          /\ Cost(accepted) <= faultsLeft
                          /\ faultsLeft' = faultsLeft - Cost(accepted)
                          /\ IF accepted
                             THEN /\ batchSuccessCount' = batchSuccessCount + 1
                                  /\ batchFailureCount' = batchFailureCount
                                  /\ batchTxResults' =
                                       Append(batchTxResults,
                                         TxResult(txData.stakeAccountPubKey,
                                           TxIdOf(txData.serializedTransaction),
                                           "Success", <<>>))
                             ELSE BsFail(txData.stakeAccountPubKey,
                                    ErrorMessage(Err(
                                      "failed to send transaction", <<>>)))
  /\ signedIndex' = signedIndex + 1
  /\ UNCHANGED << pageVars, waitVars, queueVars, pc, config, existingAuthorityAddress, newAuthorityAddress,
                  stakeAccounts, batchVars, signVars, error, resolveCalls,
                  listCalls, blockhashFetches, signRequests, signFailed,
                  report, signBatch, buildIndex, txDataMap,
                  messagesForSigning, signedMessages, allTxResults >>

\* after the loop: the rows and the counts of the batch join the totals
BsFinishBatch ==
  /\ pc = "bsCorrelate"
  /\ signedIndex >= Len(signedMessages)
  /\ allTxResults' = allTxResults \o batchTxResults
  /\ totalSuccessCount' = totalSuccessCount + batchSuccessCount
  /\ totalFailureCount' = totalFailureCount + batchFailureCount
  /\ pc' = "bsReport"
  /\ UNCHANGED << pageVars, waitVars, queueVars, config, existingAuthorityAddress, newAuthorityAddress,
                  stakeAccounts, items, batchSize, batches, batchIndex,
                  results, signVars, faultsLeft, error, netVars, signBatch,
                  buildIndex, txDataMap, messagesForSigning, signedMessages,
                  signedIndex, batchTxResults, batchSuccessCount,
                  batchFailureCount >>

\* writeResultsToCsv(allTxResults)
BsWriteReport ==
  /\ pc = "bsReport"
  /\ report' = allTxResults
  /\ \E ok \in BOOLEAN :
       /\ Cost(ok) <= faultsLeft
       /\ faultsLeft' = faultsLeft - Cost(ok)
       /\ IF ok THEN pc' = "done" /\ error' = error
          ELSE pc' = "aborted" /\ error' = "report could not be written"
  /\ UNCHANGED << pageVars, waitVars, queueVars, corrVars, config, existingAuthorityAddress,
                  newAuthorityAddress, stakeAccounts, batchVars, signVars,
                  resolveCalls, listCalls, blockhashFetches, signRequests,
                  signFailed, broadcasts >>

\* one batch of valid stake accounts enters the loop over the batches
InitBatchSign ==
  /\ InitQueue
  /\ InitWait
  /\ InitPages
  /\ pc = "bsBuild"
  /\ envOperation = "change-authority"
  /\ envValid = TRUE
  /\ currentAuthorityVaultId = <<"0">>
  /\ newAuthorityVaultId = <<"1">>
  /\ \E n \in 1..MaxBatchTx :
       /\ chainAccounts = [i \in 1..n |-> KindAccount("rich", i)]
       /\ stakeAccounts = chainAccounts
       /\ signBatch = chainAccounts
  /\ existingAuthorityAddress = AddressOfVault(currentAuthorityVaultId)
  /\ newAuthorityAddress = AddressOfVault(newAuthorityVaultId)
  /\ items = <<>>
  /\ batchSize = 0
  /\ batches = <<>>
  /\ batchIndex = 0
  /\ results = <<>>
  /\ totalSuccessCount = 0
  /\ totalFailureCount = 0
  /\ tx = NoTx
  /\ fbStatus = ""
  /\ txResponse = NoResponse
  /\ polls = 0
  /\ faultsLeft = MaxFaults
  /\ error = ""
  /\ resolveCalls = <<currentAuthorityVaultId, newAuthorityVaultId>>
  /\ listCalls = 1
  /\ blockhashFetches = 0
  /\ signRequests = <<>>
  /\ signFailed = {}
  /\ broadcasts = <<>>
  /\ report = <<>>
  /\ buildIndex = 0
  /\ txDataMap = <<>>
  /\ messagesForSigning = <<>>
  /\ signedMessages = <<>>
  /\ signedIndex = 0
  /\ batchTxResults = <<>>
  /\ batchSuccessCount = 0
  /\ batchFailureCount = 0
  /\ allTxResults = <<>>

NextBatchSign ==
  \/ BsBuildOne
  \/ BsBuildDone
  \/ BsSign
  \/ BsCorrelate
  \/ BsFinishBatch
  \/ BsWriteReport

SpecBatchSign == InitBatchSign /\ [][NextBatchSign]_vars

\* a transaction builder handed one group of at most MaxGroup accounts of
\* any kind, the empty group included
InitBuild ==
  /\ InitCorr
  /\ InitQueue
  /\ InitWait
  /\ InitPages
  /\ pc = "group"
  /\ envOperation \in {"change-authority", "withdraw"}
  /\ envValid = TRUE
  /\ currentAuthorityVaultId = <<"0">>
  /\ newAuthorityVaultId = <<"1">>
  /\ chainAccounts \in UNION { Listings(n, n) : n \in 0..MaxGroup }
  /\ stakeAccounts = chainAccounts
  /\ items = chainAccounts
  /\ batchSize = CapOf(Operation)
  /\ batches = <<chainAccounts>>
  /\ existingAuthorityAddress = AddressOfVault(currentAuthorityVaultId)
  /\ newAuthorityAddress = AddressOfVault(newAuthorityVaultId)
  /\ batchIndex = 0
  /\ results = <<>>
  /\ totalSuccessCount = 0
  /\ totalFailureCount = 0
  /\ tx = NoTx
  /\ fbStatus = ""
  /\ txResponse = NoResponse
  /\ polls = 0
  /\ faultsLeft = MaxFaults
  /\ error = ""
  /\ resolveCalls = <<currentAuthorityVaultId, newAuthorityVaultId>>
  /\ listCalls = 1
  /\ blockhashFetches = 0
  /\ signRequests = <<>>
  /\ signFailed = {}
  /\ broadcasts = <<>>
  /\ report = <<>>

NextBuild == BuildGroup

SpecBuild == InitBuild /\ [][NextBuild]_vars

(***************************************************************************)
(* Helpers of the properties                                               *)
(***************************************************************************)
RECURSIVE Flatten(_)
\* the concatenation of a sequence of sequences
Flatten(ss) == IF ss = <<>> THEN <<>> ELSE Head(ss) \o Flatten(Tail(ss))

RECURSIVE SumSizes(_)
SumSizes(ss) == IF ss = <<>> THEN 0 ELSE Len(Head(ss)) + SumSizes(Tail(ss))

CeilDiv(n, c) == (n + c - 1) \div c

\* the member lists of the result records, in order
ResultItems == [k \in 1..Len(results) |-> results[k].items]

\* processBatchedTransactions has returned
Returned == pc = "report" \/ report # <<>>

NoNetworkCalls ==
  /\ resolveCalls = <<>>
  /\ listCalls = 0
  /\ blockhashFetches = 0
  /\ signRequests = <<>>
  /\ polls = 0
  /\ broadcasts = <<>>

\* the positions (group, index) at which an item was placed
PlacesOf(item) ==
  { <<b, k>> \in (1..Len(batches)) \X (1..Len(items)) :
      k <= Len(batches[b]) /\ batches[b][k] = item }

(***************************************************************************)
(* Properties                                                              *)
(***************************************************************************)

\* C1: for every list of items and every cap >= 1, after the partition step
\* the group sizes sum to the number of items, the groups are consecutive
\* slices in input order, and every item is in exactly one group.
C1_PartitionCoversItems ==
  pc = "group" =>
    /\ SumSizes(batches) = Len(items)
    /\ Flatten(batches) = items
    /\ \A i \in 1..Len(items) : Cardinality(PlacesOf(items[i])) = 1

C1_Witness ==
  /\ pc = "group"
  /\ Len(batches) >= 3
  /\ Len(items) % batchSize # 0

\* C2: no group handed to the transaction builder is empty or larger than
\* the cap of its operation: 6 accounts for changeAuthorities, 4 for
\* withdrawFromInactiveAccounts; the built and the submitted transactions
\* hold the instructions of at most that many accounts.
C2_GroupWithinCap ==
  LET cap == IF Operation = "change-authority" THEN 6 ELSE 4
      perAccount == IF Operation = "change-authority" THEN 2 ELSE 1
  IN /\ \A k \in 1..Len(batches) :
          Len(batches[k]) >= 1 /\ Len(batches[k]) <= cap
     /\ tx # NoTx => /\ Len(tx.instructions) >= perAccount
                     /\ Len(tx.instructions) <= cap * perAccount
     /\ \A r \in 1..Len(signRequests) :
          Len(signRequests[r].messages[1].instructions) <= cap * perAccount

C2_Witness ==
  /\ pc = "sign"
  /\ Len(batches) >= 2
  /\ Len(CurrentBatch) = 6
  /\ Len(tx.instructions) = 12

\* C3: partitioning is greedy: n items with cap c give ceil(n/c) groups,
\* every group but the last has exactly c members and the last has
\* n - c*(ceil(n/c)-1) members.
C3_GreedyPartition ==
  pc = "group" =>
    LET n == Len(items)
        c == batchSize
        g == CeilDiv(n, c)
    IN /\ Len(batches) = g
       /\ \A k \in 1..Len(batches) :
            Len(batches[k]) = IF k < g THEN c ELSE n - c * (g - 1)

C3_Witness ==
  /\ pc = "group"
  /\ Len(items) = 10
  /\ batchSize = 6
  /\ Len(batches) = 2
  /\ Len(batches[1]) = 6
  /\ Len(batches[2]) = 4

\* C4: when processBatchedTransactions returns, there is one result record
\* per group and the concatenation of the records' member lists is the list
\* of the input accounts, each exactly once, whatever the groups' outcomes.
C4_OneResultPerGroup ==
  Returned =>
    /\ Len(results) = Len(batches)
    /\ Flatten(ResultItems) = ItemIds(items)
    /\ \A k \in 1..Len(results) : results[k].items = ItemIds(batches[k])

C4_Witness ==
  /\ pc = "report"
  /\ Len(results) >= 2
  /\ \E j, k \in 1..Len(results) :
       results[j].status = "Success" /\ results[k].status = "Failed"

\* C5: a group whose signing request was fetched in a failure terminal state
\* (Blocked, Cancelled, Failed, Rejected) gets exactly one record, with status
\* Failed and exactly its accounts, as soon as the poll has re-fetched that
\* state; nothing is broadcast for it; and the later groups are still
\* processed, so that the run ends with one record per group.
C5_SigningFailureIsolated ==
  /\ Len(results) = batchIndex
  /\ \A k \in signFailed :
       /\ \A b \in 1..Len(broadcasts) : broadcasts[b].group # k
       /\ IF k <= Len(results)
          THEN /\ results[k].status = "Failed"
               /\ results[k].items = ItemIds(batches[k])
          ELSE k = batchIndex + 1 /\ pc = "poll" /\ polls = 1
  /\ (signFailed # {} /\ pc \in {"report", "done"}) => Len(results) = Len(batches)
  /\ (signFailed # {} /\ pc = "aborted") => report # <<>>

C5_Witness ==
  /\ pc = "report"
  /\ signFailed = {2}
  /\ Len(results) = 3
  /\ results[1].status = "Success"
  /\ results[2].status = "Failed"
  /\ results[3].status = "Success"

ConfigErrors ==
  { "TypeError: toLowerCase of undefined",
    "Current authority vault ID is required",
    "New authority vault ID is required",
    "Missing required environment variables",
    "Invalid operation specified",
    "New authority vault account has to be a newer account",
    "New authority vault account has to be a different account" }

ResolutionErrors ==
  { "No existing authority found for vault ID",
    "No authority found for vault ID",
    "No new authority found for vault ID" }

EmptyInputErrors ==
  { "No stake accounts found for address", "No valid stake accounts found" }

\* C6 as stated: a run is aborted only by a configuration, resolution or
\* empty-input error.
C6_OnlyThreeKindsAbort ==
  pc = "aborted" =>
    error \in ConfigErrors \cup ResolutionErrors \cup EmptyInputErrors

\* C6 as amended: every error of a group's build, sign or broadcast step
\* becomes that group's Failed record and the loop goes on over every group;
\* a run is aborted only outside the loop: before it by a configuration,
\* resolution, account-listing or empty-input error, with no group attempted,
\* or after it by a failure to write the report, with every group recorded.
C6_AbortOnlyOutsideLoop ==
  /\ pc = "aborted" =>
       \/ /\ error \in ConfigErrors \cup ResolutionErrors \cup EmptyInputErrors
                        \cup {"Solscan API error"}
          /\ batches = <<>> /\ results = <<>> /\ blockhashFetches = 0
          /\ signRequests = <<>> /\ broadcasts = <<>>
       \/ /\ error = "report could not be written"
          /\ Len(results) = Len(batches)
  /\ Returned => Len(results) = Len(batches)
  /\ Len(results) = batchIndex
  /\ \A k \in 1..Len(results) :
       results[k].status = "Success" <=>
         \E b \in 1..Len(broadcasts) :
            broadcasts[b].group = k /\ results[k].txHash = TxIdOf(broadcasts[b].message)

C6_Witness ==
  /\ pc = "done"
  /\ Len(results) = 2
  /\ results[1].status = "Failed"
  /\ results[1].errorMessage = <<"failed to get recent blockhash">>
  /\ results[2].status = "Success"

\* C7: changeAuthorities rejects whenever both vault ids are numbers and the
\* current one is greater than or equal to the new one, and it does so before
\* any network call.
C7_MisorderedVaultsRejected ==
  LET cur == ParseInt(currentAuthorityVaultId)
      new == ParseInt(newAuthorityVaultId)
  IN (/\ Operation = "change-authority"
      /\ pc \notin {"new", "main", "validate"}
      /\ ~cur.nan /\ ~new.nan
      /\ cur.val >= new.val)
     => (pc = "aborted" /\ NoNetworkCalls)

C7_Witness ==
  /\ pc = "aborted"
  /\ error = "New authority vault account has to be a different account"
  /\ currentAuthorityVaultId # newAuthorityVaultId
  /\ NoNetworkCalls

\* !s, or parseInt(s) is NaN
MissingOrNonNumeric(s) == JsNot(s) \/ ParseInt(s).nan

\* C8: a missing or non-numeric vault id that the operation uses is rejected
\* before any network call.
C8_BadVaultIdRejected ==
  (/\ pc \notin {"new", "main", "validate"}
   /\ \/ MissingOrNonNumeric(currentAuthorityVaultId)
      \/ /\ Operation = "change-authority"
         /\ MissingOrNonNumeric(newAuthorityVaultId))
  => NoNetworkCalls

\* C9: a transaction is submitted to the network only with a signature that
\* verifySignatures accepts; a group whose verification failed is recorded
\* Failed and nothing is submitted for it.
C9_OnlyVerifiedBroadcast ==
  /\ \A b \in 1..Len(broadcasts) :
       VerifySignatures(broadcasts[b].message, broadcasts[b].signature,
                        broadcasts[b].signer)
  /\ \A k \in 1..Len(results) :
       results[k].errorMessage = <<"Transaction signature verification failed">>
         => /\ results[k].status = "Failed"
            /\ \A b \in 1..Len(broadcasts) : broadcasts[b].group # k

C9_Witness ==
  /\ Len(broadcasts) >= 1
  /\ \E k \in 1..Len(results) :
       results[k].errorMessage = <<"Transaction signature verification failed">>

\* the withdraw instructions of a transaction
WithdrawIxsOf(message) ==
  { message.instructions[k] : k \in 1..Len(message.instructions) }

\* C10: every withdrawal instruction has as amount the balance of its
\* account minus the reserve of 3,000,000 lamports, and every withdrawal
\* instruction that is built or submitted has an amount greater than zero (an
\* account whose balance is at most the reserve is in no withdrawal
\* instruction).
C10_PositiveWithdrawals ==
  Operation = "withdraw" =>
    /\ tx # NoTx =>
         \A k \in 1..Len(tx.instructions) :
           tx.instructions[k].lamports = CurrentBatch[k].sol_balance - 3000000
    /\ \A ix \in WithdrawIxsOf(tx) : ix.lamports > 0
    /\ \A r \in 1..Len(signRequests) :
         \A ix \in WithdrawIxsOf(signRequests[r].messages[1]) : ix.lamports > 0

\* C11: waitForSignature classifies every fetched status as the state machine
\* of a signing request does: it returns a response only when the last
\* fetched status is Completed or Broadcasting; a fetched Blocked, Cancelled,
\* Failed or Rejected status, also at the first fetch, ends the call in
\* failure; it waits and fetches again only on the other statuses.
C11_ExactClassification ==
  /\ pc = "send" => txResponse.status \in SuccessStates
  /\ pc = "poll" => fbStatus \notin FailureStates \cup SuccessStates
  /\ \A k \in signFailed : k <= Len(results) /\ results[k].status = "Failed"

\* the parts of an error message
PartsOf(message) == { message[i] : i \in 1..Len(message) }

\* C12: the errorMessage of the Failed record of a group whose signing
\* request ended in a failure terminal state carries the status and the
\* sub-status text reported by the signing service.
C12_FailureCarriesSubStatus ==
  \A k \in signFailed :
    (k <= Len(results) /\ results[k].status = "Failed") =>
      \E s \in FailureStates :
        /\ s \in PartsOf(results[k].errorMessage)
        /\ Response(s, "ok", NoTx).subStatus \in PartsOf(results[k].errorMessage)

\* the signed message of the fetched response carries another content than
\* the pending transaction
ContentMismatch ==
  /\ txResponse.hasSignedMessages
  /\ Len(txResponse.signedMessages) > 0
  /\ txResponse.signedMessages[1].content # tx

\* C13: a signature is attached only to the pending transaction whose
\* serialized content equals the content field of the signed message that
\* carried it: a signed message with another content makes its group Failed
\* and nothing is broadcast for it.
C13_SignatureMatchedByContent ==
  [][(pc = "send" /\ ContentMismatch) =>
       /\ broadcasts' = broadcasts
       /\ Len(results') = Len(results) + 1
       /\ results'[Len(results')].status = "Failed"]_vars

\* the rows recorded for a stake account
RowsOf(rows, stakeAccount) ==
  { i \in 1..Len(rows) : rows[i].stakeAccount = stakeAccount }

\* the signed messages that carry a content
SignedFor(content) ==
  { j \in 1..Len(signedMessages) : signedMessages[j].content = content }

\* C14: in the batch-signing flow, when the service returned fewer signed
\* messages than the contents submitted, each of them for a submitted
\* content, the batch is processed to its end: every submitted content with a valid matching signature has been
\* broadcast, every submitted content that received no signature has a Failed
\* row, and so every submitted content has a row.
C14_EveryContentHasResult ==
  (/\ pc = "bsReport"
   /\ signedMessages # <<>>
   /\ Len(signedMessages) < Len(messagesForSigning)
   /\ \A j \in 1..Len(signedMessages) :
        Matches(txDataMap, signedMessages[j].content)) =>
    \A i \in 1..Len(messagesForSigning) :
      LET content == messagesForSigning[i]
          stake == MapGet(txDataMap, content).stakeAccountPubKey
      IN /\ (\E j \in SignedFor(content) : signedMessages[j].signature = "valid")
              => \E b \in 1..Len(broadcasts) : broadcasts[b].message = content
         /\ SignedFor(content) = {}
              => \E r \in RowsOf(allTxResults, stake) :
                    allTxResults[r].status = "Failed"
         /\ RowsOf(allTxResults, stake) # {}

\* C15: in the batch-signing flow a pending transaction is matched by at most
\* one signed message: a second signed message with the content of an earlier
\* one gets a Failed row, and no transaction is broadcast twice.
C15_NoDuplicateBroadcast ==
  /\ \A a, b \in 1..Len(broadcasts) :
       a # b => broadcasts[a].message # broadcasts[b].message
  /\ \A j, k \in 1..Len(batchTxResults) :
       (/\ j < k
        /\ signedMessages[j].content = signedMessages[k].content
        /\ Matches(txDataMap, signedMessages[k].content))
       => batchTxResults[k].status = "Failed"

\* no group was attempted: nothing built, signed, broadcast or recorded
NoGroupAttempted ==
  /\ batches = <<>>
  /\ results = <<>>
  /\ blockhashFetches = 0
  /\ signRequests = <<>>
  /\ broadcasts = <<>>

\* C16: when the listing of the authority's accounts has returned zero
\* accounts, the run of either operation is aborted with an error: there is
\* no group result, no transaction was built, no signing request was created,
\* nothing was broadcast and no report is written.
C16_EmptyListingAborts ==
  (listCalls > 0 /\ pc # "list" /\ Len(chainAccounts) = 0) =>
    /\ pc = "aborted"
    /\ error # ""
    /\ NoGroupAttempted
    /\ report = <<>>

C16_Witness ==
  /\ pc = "aborted"
  /\ error = "No stake accounts found for address"
  /\ Operation = "withdraw"
  /\ listCalls = 1
  /\ stakeAccounts = <<>>

\* C17: when the lookup of the address of the current or of the new
\* authority's vault failed or returned nothing, the run is aborted with an
\* error and no group is attempted: no account is listed, no signing request
\* is created and nothing is broadcast.
C17_UnresolvedAuthorityAborts ==
  LET abortedBeforeListing ==
        /\ pc = "aborted"
        /\ error \in ResolutionErrors
        /\ listCalls = 0
        /\ stakeAccounts = <<>>
        /\ NoGroupAttempted
        /\ report = <<>>
  IN /\ (Len(resolveCalls) >= 1 /\ pc # "resolveCur"
           /\ existingAuthorityAddress = 0) => abortedBeforeListing
     /\ (Len(resolveCalls) >= 2 /\ pc # "resolveNew"
           /\ newAuthorityAddress = 0) => abortedBeforeListing

C17_Witness ==
  /\ pc = "aborted"
  /\ error = "No new authority found for vault ID"
  /\ existingAuthorityAddress # 0
  /\ newAuthorityAddress = 0
  /\ Len(resolveCalls) = 2

\* C18: no group that was processed holds an account without address, and
\* no group is recorded Failed because one of its accounts has no address.
C18_NoMalformedInGroups ==
  \A k \in 1..Len(results) :
    /\ \A i \in 1..Len(batches[k]) : IsValidStakeAccount(batches[k][i])
    /\ results[k].errorMessage # <<"Invalid public key input">>

\* accounts were listed and the filter of the operation has kept none
NoneRemains ==
  /\ pc \notin {"new", "main", "validate", "resolveCur", "resolveNew",
                "list", "filter"}
  /\ stakeAccounts # <<>>
  /\ KeptAccounts(Operation, stakeAccounts) = <<>>

\* C19 as stated: in both operations, when accounts are listed and none
\* remains after filtering, the run is aborted with an error and no group is
\* attempted.
C19_EmptyAfterFilterAborts ==
  NoneRemains => (pc = "aborted" /\ error # "" /\ NoGroupAttempted)

\* C19 as amended: when accounts are listed and none remains after the
\* filter of the operation, no group is attempted and no report is written;
\* changeAuthorities is aborted with the error "No valid stake accounts
\* found", withdrawFromInactiveAccounts ends normally without error.
C19_EmptyAfterFilterEndsRun ==
  NoneRemains =>
    /\ NoGroupAttempted
    /\ report = <<>>
    /\ IF Operation = "change-authority"
       THEN pc = "aborted" /\ error = "No valid stake accounts found"
       ELSE pc = "done" /\ error = ""

C19_Witness ==
  /\ Operation = "withdraw"
  /\ Len(stakeAccounts) = 2
  /\ InactiveAccounts(stakeAccounts) = <<>>
  /\ pc = "done"

\* C20: a builder handed an empty group, or a group with an account that
\* has no address, fails with an error and produces no serialized content.
C20_BuilderRejectsBadGroup ==
  (/\ pc = "sign" \/ batchIndex = 1
   /\ batches[1] = <<>> \/ ~AllValidKeys(batches[1]))
  => /\ pc = "group"
     /\ tx = NoTx
     /\ Len(results) = 1
     /\ results[1].status = "Failed"

(***************************************************************************)
(* C21: groups are processed strictly one at a time                        *)
(***************************************************************************)
\* the steps of processTransaction that wait on the network for the group
\* under construction
InFlight == pc \in {"sign", "fetch", "poll", "send"}

\* C21: the groups are processed strictly one at a time.  Every network
\* operation made so far (blockhash fetch, signing request, broadcast)
\* belongs to a group whose result is already appended, or to the single
\* group after them while that group is in flight; a transaction exists
\* only for that one group, and requests and broadcasts were made in group
\* order without ever returning to an earlier group.
C21_GroupsStrictlySequential ==
  /\ batchIndex = Len(results)
  /\ blockhashFetches <= Len(results) + (IF InFlight THEN 1 ELSE 0)
  /\ \A r \in 1..Len(signRequests) :
       /\ signRequests[r].group <= Len(results) + 1
       /\ signRequests[r].group = Len(results) + 1 =>
            (pc \in {"fetch", "poll", "send"} /\ r = Len(signRequests))
       /\ r > 1 => signRequests[r - 1].group < signRequests[r].group
  /\ \A b \in 1..Len(broadcasts) :
       /\ broadcasts[b].group <= Len(results)
       /\ b > 1 => broadcasts[b - 1].group < broadcasts[b].group
  /\ tx # NoTx => InFlight
  /\ InFlight => Len(results) < Len(batches)

\* the second group's request is being polled after the first group's
\* result was appended
C21_Witness ==
  /\ pc = "poll"
  /\ Len(results) = 1
  /\ Len(signRequests) = 2
  /\ signRequests[1].group = 1
  /\ signRequests[2].group = 2

(***************************************************************************)
(* C22: one fresh blockhash per group                                      *)
(***************************************************************************)
\* C22: every group's transaction carries a blockhash fetched in that
\* group's own build step.  A blockhash is fetched only by the build step
\* of the group that follows the recorded results, one fetch per step; the
\* transaction that step builds carries the blockhash just fetched; the
\* signing request that follows carries that transaction, with no fetch in
\* between; a later group's step fetches again, so no blockhash is shared.
C22_FreshBlockhashPerGroup ==
  [][ /\ blockhashFetches' # blockhashFetches =>
           /\ pc = "group"
           /\ batchIndex = Len(results)
           /\ batchIndex < Len(batches)
           /\ blockhashFetches' = blockhashFetches + 1
      /\ (tx' # tx /\ tx' # NoTx) =>
           /\ pc = "group"
           /\ pc' = "sign"
           /\ blockhashFetches' = blockhashFetches + 1
           /\ tx'.blockhash = blockhashFetches'
      /\ signRequests' # signRequests =>
           /\ pc = "sign"
           /\ blockhashFetches' = blockhashFetches
           /\ Len(signRequests') = Len(signRequests) + 1
           /\ signRequests'[Len(signRequests')].messages[1].blockhash
                = blockhashFetches
           /\ \A r \in 1..Len(signRequests) :
                signRequests[r].messages[1].blockhash < blockhashFetches
    ]_vars

\* the second group is about to be signed with the second blockhash
C22_Witness ==
  /\ pc = "sign"
  /\ batchIndex = 1
  /\ Len(results) = 1
  /\ Len(signRequests) = 1
  /\ blockhashFetches = 2
  /\ tx.blockhash = 2
  /\ signRequests[1].messages[1].blockhash = 1

(***************************************************************************)
(* The rate-limited request queue of the listing service                   *)
(***************************************************************************)
\* every variable of the run outside the request queue
runVars == << pc, config, existingAuthorityAddress, newAuthorityAddress,
              stakeAccounts, batchVars, signVars, faultsLeft, error, netVars,
              corrVars, waitVars, pageVars >>

\* a loop that starts although another one is processing
MayStartLoopUnguarded(busy, queue) == Len(queue) > 0

\* processQueue: if (this.processing || this.requestQueue.length === 0) return
MayStartLoop(busy, queue) == ~busy /\ Len(queue) > 0

\* one iteration of the while loop of processQueue up to the await:
\* shift the first request, call it, set the timer
StartFirst(queue) ==
  /\ requestQueue' = Tail(queue)
  /\ started' = Append(started, [id |-> Head(queue).id,
                                 queuedAt |-> Head(queue).queuedAt,
                                 at |-> now])
  /\ wakeAt' = now + RequestInterval

\* rateLimitedRequest: push the request, then processQueue(), which runs
\* synchronously up to its first await
PushAndProcess ==
  /\ enqueued' = enqueued + 1
  /\ LET queue == Append(requestQueue,
                         [id |-> enqueued + 1, queuedAt |-> now])
     IN IF MayStartLoop(processing, queue)
        THEN /\ processing' = TRUE
             /\ loops' = loops + 1
             /\ StartFirst(queue)
        ELSE /\ requestQueue' = queue
             /\ UNCHANGED << processing, loops, started, wakeAt >>

\* a caller of rateLimitedRequest other than the page loop below
RateLimitedRequest ==
  /\ enqueued < MaxRequests
  /\ PushAndProcess
  /\ UNCHANGED << now, runVars >>

\* a loop that ends after its first request
LoopGoesOnNever(queue) == FALSE

\* while (this.requestQueue.length > 0)
LoopGoesOn(queue) == Len(queue) > 0

\* processQueue resumes after the await: the timer is due, the loop
\* condition is tested, and the loop either starts the next request or ends
TimerFires ==
  /\ processing
  /\ now >= wakeAt
  /\ IF LoopGoesOn(requestQueue)
     THEN /\ StartFirst(requestQueue)
          /\ UNCHANGED << processing, loops >>
     ELSE /\ processing' = FALSE
          /\ loops' = loops - 1
          /\ UNCHANGED << requestQueue, started, wakeAt >>
  /\ UNCHANGED << now, enqueued, runVars >>

\* time passes; a due timer may fire late. The clock stops at MaxClock
\* unless the timer of processQueue is still to come
Tick ==
  /\ \/ now + RequestInterval \div 2 <= MaxClock
     \/ processing /\ now < wakeAt
  /\ now' = now + RequestInterval \div 2
  /\ UNCHANGED << requestQueue, processing, wakeAt, started, enqueued,
                  loops, runVars >>

\* the listing service alone, with callers arriving at any time
InitRateLimit ==
  /\ InitRun
  /\ envOperation = "change-authority"
  /\ envValid = TRUE
  /\ currentAuthorityVaultId = <<"0">>
  /\ newAuthorityVaultId = <<"1">>
  /\ chainAccounts = <<>>
  /\ faultsLeft = 0

NextRateLimit ==
  \/ RateLimitedRequest
  \/ TimerFires
  \/ Tick

SpecRateLimit == InitRateLimit /\ [][NextRateLimit]_vars

(***************************************************************************)
(* C23: the request queue is FIFO and spaces the requests                  *)
(***************************************************************************)
\* C23: whatever the interleaving of the callers of rateLimitedRequest, the
\* listing service starts its outbound requests in the order in which they
\* were enqueued, and two consecutive starts are never less than
\* requestInterval apart.
C23_FifoAndSpaced ==
  /\ \A i \in 1..Len(started) : started[i].id = i
  /\ \A i \in 1..Len(requestQueue) : requestQueue[i].id = Len(started) + i
  /\ \A i \in 1..(Len(started) - 1) :
       started[i + 1].at - started[i].at >= RequestInterval

\* three requests enqueued in one burst at time 0 have all been started,
\* the first at once and the others by the loop after its waits
C23_Witness ==
  /\ Len(started) = 3
  /\ \A i \in 1..3 : started[i].queuedAt = 0
  /\ started[1].at = 0
  /\ started[3].at > started[2].at

(***************************************************************************)
(* C24: the instructions of a change-authority transaction                 *)
(***************************************************************************)
\* message is the change-authority transaction of the accounts ids: 2n
\* instructions, per account in order Staker then Withdrawer, each from cur
\* to new, fee payer cur
IsAuthorityChangeOf(message, ids, cur, new) ==
  /\ message.feePayer = cur
  /\ Len(message.instructions) = 2 * Len(ids)
  /\ \A k \in 1..Len(ids) :
       LET staker == message.instructions[2 * k - 1]
           withdrawer == message.instructions[2 * k]
       IN /\ staker.program = "authorize"
          /\ staker.type = "Staker"
          /\ withdrawer.program = "authorize"
          /\ withdrawer.type = "Withdrawer"
          /\ \A ix \in {staker, withdrawer} :
               /\ ix.stakePubkey = ids[k]
               /\ ix.authorizedPubkey = cur
               /\ ix.toPubkey = new

\* C24: the change-authority transaction built for a group of n accounts,
\* and sent for signing, has exactly 2n instructions: for each account, in
\* group order, one transferring the staker permission and then one
\* transferring the withdrawer permission, from the current authority to the
\* new authority, and the current authority pays the fee.
C24_TwoInstructionsPerAccount ==
  Operation = "change-authority" =>
    /\ tx # NoTx =>
         IsAuthorityChangeOf(tx, ItemIds(CurrentBatch),
                             existingAuthorityAddress, newAuthorityAddress)
    /\ \A r \in 1..Len(signRequests) :
         IsAuthorityChangeOf(signRequests[r].messages[1],
                             ItemIds(batches[signRequests[r].group]),
                             existingAuthorityAddress, newAuthorityAddress)

\* the second group, of three accounts, was sent for signing with six
\* instructions
C24_Witness ==
  /\ Operation = "change-authority"
  /\ existingAuthorityAddress # newAuthorityAddress
  /\ Len(signRequests) = 2
  /\ signRequests[2].group = 2
  /\ Len(batches[2]) = 3
  /\ Len(signRequests[2].messages[1].instructions) = 6
  /\ signRequests[2].messages[1].instructions[5].type = "Staker"
  /\ signRequests[2].messages[1].instructions[6].type = "Withdrawer"

(***************************************************************************)
(* C25: withdrawals only from inactive accounts, to the authority          *)
(***************************************************************************)
\* message withdraws once from each account of the group, in order, to the
\* authority, and every one of these accounts is listed as inactive
IsWithdrawalOf(message, group, authority) ==
  /\ Len(message.instructions) = Len(group)
  /\ \A k \in 1..Len(group) :
       LET ix == message.instructions[k]
       IN /\ ix.program = "withdraw"
          /\ ix.stakePubkey = group[k].address
          /\ ix.authorizedPubkey = authority
          /\ ix.toPubkey = authority
          /\ group[k].status = "inactive"
          /\ \E a \in 1..Len(stakeAccounts) :
               /\ stakeAccounts[a].address = ix.stakePubkey
               /\ stakeAccounts[a].status = "inactive"
          /\ \A a \in 1..Len(stakeAccounts) :
               stakeAccounts[a].address = ix.stakePubkey =>
                 stakeAccounts[a].status = "inactive"

\* C25: the withdraw operation builds withdrawal instructions only for
\* accounts whose listed status is "inactive", exactly one instruction per
\* account of the group, and every withdrawal instruction pays to the
\* current authority's own address.
C25_WithdrawOnlyInactiveToAuthority ==
  Operation = "withdraw" =>
    /\ tx # NoTx =>
         IsWithdrawalOf(tx, CurrentBatch, existingAuthorityAddress)
    /\ \A r \in 1..Len(signRequests) :
         IsWithdrawalOf(signRequests[r].messages[1],
                        batches[signRequests[r].group],
                        existingAuthorityAddress)
    /\ \A b \in 1..Len(broadcasts) :
         IsWithdrawalOf(broadcasts[b].message, batches[broadcasts[b].group],
                        existingAuthorityAddress)

\* a withdrawal of three inactive accounts is sent for signing while the
\* listing also holds two active accounts
C25_Witness ==
  /\ Operation = "withdraw"
  /\ pc = "fetch"
  /\ Len(signRequests) = 1
  /\ Len(signRequests[1].messages[1].instructions) = 3
  /\ Len(stakeAccounts) = 5
  /\ \E a, b \in 1..Len(stakeAccounts) :
       a # b /\ stakeAccounts[a].status = "active"
             /\ stakeAccounts[b].status = "active"

(***************************************************************************)
(* C26: the amount of a withdrawal                                         *)
(***************************************************************************)
\* C26: the withdraw operation withdraws the entire balance of each
\* inactive stake account: every withdrawal instruction built for a group
\* carries the listed balance of its account as amount.
C26_WithdrawsEntireBalance ==
  (Operation = "withdraw" /\ tx # NoTx) =>
    \A k \in 1..Len(CurrentBatch) :
      tx.instructions[k].lamports = CurrentBatch[k].sol_balance

(***************************************************************************)
(* C27: the report                                                         *)
(***************************************************************************)
\* the run has entered the loop over the groups
ReachedLoop == Len(batches) > 0

VaultsToResolve ==
  IF Operation = "change-authority"
  THEN << currentAuthorityVaultId, newAuthorityVaultId >>
  ELSE << currentAuthorityVaultId >>

\* some external call of the group loop has been made
GroupCallMade ==
  blockhashFetches > 0 \/ signRequests # <<>> \/ broadcasts # <<>>

\* C28: the external calls of a run are made in the order resolve the
\* authorities, list the accounts, then per group build, sign and broadcast,
\* then write the report.  Each authority is resolved at most once, the
\* current one first; the listing is fetched once, after every authority
\* was resolved and before anything is done for a group, and never during
\* the loop; a group is signed only after its blockhash was fetched and
\* broadcast only after it was signed; the report comes after the last
\* group; and when the current authority does not resolve, the new one is
\* never asked for.
C28_FixedCallOrder ==
  /\ Len(resolveCalls) <= Len(VaultsToResolve)
  /\ \A i \in 1..Len(resolveCalls) : resolveCalls[i] = VaultsToResolve[i]
  /\ listCalls <= 1
  /\ listCalls = 1 =>
       /\ resolveCalls = VaultsToResolve
       /\ existingAuthorityAddress # 0
       /\ Operation = "change-authority" => newAuthorityAddress # 0
  /\ (GroupCallMade \/ ReachedLoop \/ results # <<>>) =>
       (listCalls = 1 /\ pc \notin {"resolveCur", "resolveNew", "list"})
  /\ Len(signRequests) <= blockhashFetches
  /\ \A b \in 1..Len(broadcasts) :
       \E r \in 1..Len(signRequests) :
         /\ signRequests[r].group = broadcasts[b].group
         /\ signRequests[r].messages[1] = broadcasts[b].message
  /\ report # <<>> =>
       (pc \in {"done", "aborted"} /\ Len(results) = Len(batches))
  /\ (Len(resolveCalls) >= 1 /\ pc # "resolveCur"
        /\ existingAuthorityAddress = 0) =>
       (resolveCalls = << currentAuthorityVaultId >> /\ pc = "aborted"
          /\ listCalls = 0)

\* a finished change-authority run: two resolutions, one listing, two
\* groups built, signed and broadcast, then the report
C28_Witness ==
  /\ pc = "done"
  /\ Operation = "change-authority"
  /\ resolveCalls = << currentAuthorityVaultId, newAuthorityVaultId >>
  /\ listCalls = 1
  /\ blockhashFetches = 2
  /\ Len(signRequests) = 2
  /\ Len(broadcasts) = 2
  /\ Len(report) = 2

(***************************************************************************)
(* C29: one signing request and at most one broadcast per group            *)
(***************************************************************************)
\* the signing requests and the broadcasts made for group g
RequestsOf(g) == { r \in 1..Len(signRequests) : signRequests[r].group = g }

BroadcastsOf(g) == { b \in 1..Len(broadcasts) : broadcasts[b].group = g }

\* the stake accounts a serialized transaction touches
StakesOf(message) ==
  { message.instructions[k].stakePubkey : k \in 1..Len(message.instructions) }

\* the errors of the build step: the group ends before signTransaction
BuildErrors ==
  { <<"failed to get recent blockhash">>, <<"Invalid public key input">> }

\* the groups whose transaction was built
BuiltGroups ==
  { g \in 1..Len(results) : results[g].errorMessage \notin BuildErrors }
    \cup (IF pc \in {"fetch", "poll", "send"} THEN {batchIndex + 1} ELSE {})

\* every request made carries one content, the transaction of its group,
\* with the current authority's vault as source; no group has two requests
\* or two broadcasts; no group is processed twice
RequestsWellFormed ==
  /\ \A r \in 1..Len(signRequests) :
       /\ Len(signRequests[r].messages) = 1
       /\ signRequests[r].source = currentAuthorityVaultId
       /\ signRequests[r].messages[1].feePayer = existingAuthorityAddress
       /\ StakesOf(signRequests[r].messages[1])
            = { batches[signRequests[r].group][k].address :
                  k \in 1..Len(batches[signRequests[r].group]) }
  /\ \A g \in 1..Len(batches) :
       /\ Cardinality(RequestsOf(g)) <= 1
       /\ Cardinality(BroadcastsOf(g)) <= 1
  /\ \A r \in 2..Len(signRequests) :
       signRequests[r - 1].group < signRequests[r].group
  /\ \A b \in 2..Len(broadcasts) :
       broadcasts[b - 1].group < broadcasts[b].group
  /\ Len(results) = batchIndex
  /\ \A k \in 1..Len(results) : results[k].items = ItemIds(batches[k])

\* C29 as stated: once a group is recorded, exactly one signing request was
\* created for it, with one content and the current vault as source, and at
\* most one broadcast; no group is retried.
C29_OneRequestPerGroup ==
  /\ RequestsWellFormed
  /\ \A g \in 1..Len(results) : Cardinality(RequestsOf(g)) = 1

\* C29 amended: at most one signing request is created per group, exactly
\* one for every group whose transaction was built (a group whose build
\* step fails has none), carrying exactly one content, that group's
\* serialized transaction, with the current authority's vault as source; at
\* most one broadcast is made per group; a failed group is never retried.
C29_OneRequestPerBuiltGroup ==
  /\ RequestsWellFormed
  /\ \A g \in 1..Len(batches) :
       Cardinality(RequestsOf(g)) = (IF g \in BuiltGroups THEN 1 ELSE 0)

\* the first group failed at signing and was not retried: the second group
\* has its own request and is the only one broadcast
C29_Witness ==
  /\ pc = "report"
  /\ Len(batches) = 2
  /\ results[1].status = "Failed"
  /\ results[2].status = "Success"
  /\ Cardinality(RequestsOf(1)) = 1
  /\ Cardinality(RequestsOf(2)) = 1
  /\ BroadcastsOf(1) = {}
  /\ Cardinality(BroadcastsOf(2)) = 1

(***************************************************************************)
(* C30: a broadcast needs a signed response                                *)
(***************************************************************************)
\* the response held at the send step has no signed message, or its first
\* signed message has no signature
NothingSigned ==
  \/ ~txResponse.hasSignedMessages
  \/ Len(txResponse.signedMessages) = 0
  \/ txResponse.signedMessages[1].signature = NoSig

\* the errors of a response without a usable signature
UnsignedErrors ==
  { <<"Transaction response is undefined">>,
    <<"No signed messages returned from Fireblocks">>,
    <<"Missing signature from Fireblocks">> }

\* C30: a group is broadcast only after its signing request was fetched in
\* a success terminal state (Completed or Broadcasting) with at least one
\* signed message whose signature is present, and that signature is the one
\* submitted; when the response has no signed messages, or its first signed
\* message has no signature, the step records the group Failed and
\* broadcasts nothing.
C30_BroadcastNeedsSignature ==
  /\ [](/\ \A b \in 1..Len(broadcasts) : broadcasts[b].signature # NoSig
        /\ \A k \in 1..Len(results) :
             results[k].errorMessage \in UnsignedErrors =>
               (results[k].status = "Failed" /\ BroadcastsOf(k) = {}))
  /\ [][ /\ broadcasts' # broadcasts =>
              /\ pc = "send"
              /\ txResponse.status \in {"COMPLETED", "BROADCASTING"}
              /\ fbStatus = txResponse.status
              /\ ~NothingSigned
              /\ broadcasts' = Append(broadcasts, broadcasts'[Len(broadcasts')])
              /\ broadcasts'[Len(broadcasts')].group = batchIndex + 1
              /\ broadcasts'[Len(broadcasts')].signature
                   = txResponse.signedMessages[1].signature
         /\ (pc = "send" /\ NothingSigned) =>
              /\ broadcasts' = broadcasts
              /\ Len(results') = Len(results) + 1
              /\ results'[Len(results')].status = "Failed"
              /\ results'[Len(results')].items = ItemIds(CurrentBatch)
              /\ results'[Len(results')].errorMessage \in UnsignedErrors
     ]_vars

\* the first group came back signed without a signature and was recorded
\* Failed without a broadcast; the second came back signed and was broadcast
C30_Witness ==
  /\ pc = "group"
  /\ Len(results) = 2
  /\ results[1].status = "Failed"
  /\ results[1].errorMessage = <<"Missing signature from Fireblocks">>
  /\ BroadcastsOf(1) = {}
  /\ Cardinality(RequestsOf(1)) = 1
  /\ results[2].status = "Success"
  /\ Cardinality(BroadcastsOf(2)) = 1

(***************************************************************************)
(* C31: termination                                                        *)
(***************************************************************************)
\* the run has ended
Ended == pc \in {"done", "aborted"}

C32_StuckPollBlocksRun ==
  /\ [](pc = "poll" =>
          /\ fbStatus \notin {"COMPLETED", "BROADCASTING"}
          /\ Len(results) = batchIndex
          /\ batchIndex < Len(batches)
          /\ report = <<>>
          /\ blockhashFetches <= batchIndex + 1
          /\ \A r \in 1..Len(signRequests) :
               signRequests[r].group <= batchIndex + 1
          /\ \A b \in 1..Len(broadcasts) : broadcasts[b].group <= batchIndex)
  /\ [][(pc \in {"fetch", "poll"} /\ fbStatus' \in IntermediateStates) =>
          /\ pc' = "poll"
          /\ UNCHANGED << batchVars, tx, netVars, error >>]_vars

\* the first of two groups has been polled more than MaxPolls times and is
\* still pending; nothing is recorded and the second group waits
C32_Witness ==
  /\ pc = "poll"
  /\ polls = MaxPolls + 1
  /\ fbStatus = "PENDING_SIGNATURE"
  /\ batchIndex = 0
  /\ Len(batches) = 2
  /\ results = <<>>
  /\ Len(signRequests) = 1
  /\ report = <<>>

(***************************************************************************)
(* C33: the status log of a poll                                           *)
(***************************************************************************)
\* the number of fetches whose status differs from the fetch before
StatusChanges(fetched) ==
  Cardinality({ i \in 1..(Len(fetched) - 1) : fetched[i] # fetched[i + 1] })

RECURSIVE Transitions(_)
\* the fetched statuses with every repetition of the previous one left out
Transitions(fetched) ==
  IF Len(fetched) <= 1 THEN fetched
  ELSE LET front == SubSeq(fetched, 1, Len(fetched) - 1)
           last == fetched[Len(fetched)]
       IN IF last = front[Len(front)] THEN Transitions(front)
          ELSE Append(Transitions(front), last)

\* C33: during a signing poll the first fetched status is logged, and a
\* later fetched status is logged only when it differs from the one logged
\* before it.  So no two consecutive status lines of a request show the
\* same status, the lines are exactly the first status and every change
\* after it, and their number is one plus the number of observed changes.
C33_LogOnlyOnTransition ==
  /\ fetchedStatuses = <<>> => statusLog = <<>>
  /\ fetchedStatuses # <<>> =>
       /\ statusLog[1] = fetchedStatuses[1]
       /\ lastStatus = fetchedStatuses[Len(fetchedStatuses)]
       /\ lastStatus = statusLog[Len(statusLog)]
       /\ Len(statusLog) = 1 + StatusChanges(fetchedStatuses)
       /\ statusLog = Transitions(fetchedStatuses)
  /\ \A i \in 1..(Len(statusLog) - 1) : statusLog[i] # statusLog[i + 1]

\* three fetches of one request, the status changed once: two log lines
C33_Witness ==
  /\ pc = "poll"
  /\ fetchedStatuses = << "SUBMITTED", "SUBMITTED", "PENDING_SIGNATURE" >>
  /\ statusLog = << "SUBMITTED", "PENDING_SIGNATURE" >>

(***************************************************************************)
(* C34: the shape of a result record                                       *)
(***************************************************************************)
\* C34: every result record has status Success or Failed.  A Success
\* record carries the transaction id the network returned for the group's
\* broadcast and no error message; a Failed record carries a non-empty
\* error message and no transaction id.
C34_ResultShape ==
  \A k \in 1..Len(results) :
    /\ results[k].status \in {"Success", "Failed"}
    /\ results[k].status = "Success" =>
         /\ results[k].errorMessage = <<>>
         /\ results[k].txHash # 0
         /\ \E b \in 1..Len(broadcasts) :
              /\ broadcasts[b].group = k
              /\ results[k].txHash = TxIdOf(broadcasts[b].message)
    /\ results[k].status = "Failed" =>
         /\ results[k].txHash = 0
         /\ results[k].errorMessage # <<>>
         /\ results[k].errorMessage[1] # ""

\* one record of each kind: the first group was accepted by the network,
\* the second was rejected by it
C34_Witness ==
  /\ pc = "group"
  /\ Len(results) = 2
  /\ results[1].status = "Success"
  /\ results[1].txHash = 1
  /\ results[2].status = "Failed"
  /\ results[2].errorMessage = << "failed to send transaction" >>

(***************************************************************************)
(* C35: the result list is append-only                                     *)
(***************************************************************************)
\* C35: the result list is append-only and ordered by group.  The only
\* change ever made to it is the append of one record by the group in
\* progress, group k, as element k, with the addresses of group k in order
\* as its members; the records 1..k-1 stay as they were.
C35_ResultsAppendOnly ==
  /\ [](\A k \in 1..Len(results) : results[k].items = ItemIds(batches[k]))
  /\ [][results' # results =>
          /\ Len(results) = batchIndex
          /\ Len(results') = Len(results) + 1
          /\ batchIndex' = batchIndex + 1
          /\ results'[Len(results')].items = ItemIds(CurrentBatch)
          /\ \A k \in 1..Len(results) : results'[k] = results[k]]_vars

\* the third group of a withdrawal has just been recorded after the first
\* two
C35_Witness ==
  /\ Operation = "withdraw"
  /\ pc = "group"
  /\ Len(batches) = 3
  /\ Len(results) = 3
  /\ results[3].items = ItemIds(batches[3])
  /\ results[1].status = "Failed"

(***************************************************************************)
(* C36: the totals of processBatchedTransactions                           *)
(***************************************************************************)
\* the member lists of the records with the given status
ItemsWithStatus(status) ==
  LET kept == SelectSeq(results, LAMBDA r : r.status = status)
  IN [k \in 1..Len(kept) |-> kept[k].items]

\* C36: at the end of processBatchedTransactions totalSuccessCount is the
\* summed size of the groups recorded Success, totalFailureCount the summed
\* size of the groups recorded Failed, and the two add up to the number of
\* input accounts.  (The first two hold after every group as well.)
C36_TotalsMatchResults ==
  /\ totalSuccessCount = SumSizes(ItemsWithStatus("Success"))
  /\ totalFailureCount = SumSizes(ItemsWithStatus("Failed"))
  /\ Returned => totalSuccessCount + totalFailureCount = Len(items)

\* nine accounts in two groups: the six of the first succeeded, the three
\* of the second failed
C36_Witness ==
  /\ pc = "report"
  /\ Len(items) = 9
  /\ Len(results) = 2
  /\ results[1].status = "Success"
  /\ results[2].status = "Failed"
  /\ totalSuccessCount = 6
  /\ totalFailureCount = 3

(***************************************************************************)
(* C37: the error message of a failed broadcast                            *)
(***************************************************************************)
\* the record a step has just appended
Recorded == results'[Len(results')]

\* C37: when the signature verification or the broadcast of a group fails,
\* the group's Failed record has the message of the underlying error as its
\* error message, followed by the simulation logs when the error carries
\* them, and the run goes on with the next group.
C37_BroadcastErrorRecorded ==
  /\ [](Returned => Len(results) = Len(batches))
  /\ [][(pc = "send" /\ ~NothingSigned) =>
          /\ Len(results') = Len(results) + 1
          /\ pc' = "group"
          /\ batchIndex' = batchIndex + 1
          /\ ~MaySend(tx, txResponse.signedMessages[1].signature,
                      existingAuthorityAddress) =>
               /\ broadcasts' = broadcasts
               /\ Recorded.status = "Failed"
               /\ Recorded.errorMessage
                    = << "Transaction signature verification failed" >>
          /\ (broadcasts' # broadcasts /\ Recorded.status = "Failed") =>
               \/ Recorded.errorMessage = << "failed to send transaction" >>
               \/ Recorded.errorMessage
                    = << "Transaction simulation failed", " - Logs: ",
                         "Program log: error" >>
          /\ MaySend(tx, txResponse.signedMessages[1].signature,
                     existingAuthorityAddress) => broadcasts' # broadcasts
     ]_vars

\* the broadcast of the first group failed in simulation and its logs are
\* in the record; the second group was processed and succeeded
C37_Witness ==
  /\ pc = "group"
  /\ Len(results) = 2
  /\ results[1].status = "Failed"
  /\ results[1].errorMessage
       = << "Transaction simulation failed", " - Logs: ",
            "Program log: error" >>
  /\ Cardinality(BroadcastsOf(1)) = 1
  /\ results[2].status = "Success"

(***************************************************************************)
(* The page loop of getStakeAccountsForAddress                             *)
(***************************************************************************)
\* what the page loop leaves alone besides the request queue
orchVars == << pc, config, existingAuthorityAddress, newAuthorityAddress,
               stakeAccounts, batchVars, signVars, faultsLeft, error, netVars,
               corrVars, waitVars >>

\* the status string Solscan sends for the k-th account of a page: mixed
\* case or none ("")
RawStatus(k) == IF k % 2 = 1 THEN "Inactive" ELSE ""

\* the data of page number page with n accounts: the accounts of a page
\* are numbered after those of the page before
PageData(page, n) ==
  [k \in 1..n |->
     [stake_account |-> (page - 1) * MaxPageLen + k,
      sol_balance |-> RENT_RESERVE + 2000000,
      status |-> RawStatus(k)]]

\* the answers Solscan may give to the request of a page: the request is
\* rejected, the body says success = false, the body has no data field, or
\* it has a data array of up to MaxPageLen accounts
PageOutcomes(page) ==
  { [kind |-> k, data |-> <<>>] : k \in {"rejected", "notSuccess", "noData"} }
    \cup { [kind |-> "data", data |-> PageData(page, n)] :
             n \in 0..MaxPageLen }

\* if (!response.data.success) throw; a rejected request throws as well
PageThrows(reply) == reply.kind \in {"rejected", "notSuccess"}

\* if (response.data.data && response.data.data.length > 0)
HasData(reply) == reply.kind = "data" /\ Len(reply.data) > 0

\* response.data.data.map(account => ({ pubkey: { address: ... }, ... }))
TransformedData(data) ==
  [k \in 1..Len(data) |->
     Account(data[k].stake_account,
             IF data[k].status # "" THEN ToLowerCase(data[k].status) ELSE "",
             data[k].sol_balance)]

\* a loop that puts every new page in front of the earlier ones
AppendPageFront(all, data) == TransformedData(data) \o all

\* allStakeAccounts = [...allStakeAccounts, ...transformedData]
AppendPage(all, data) == all \o TransformedData(data)

\* this.rateLimitedRequest(() => axios.get(..., { page: currentPage }))
RequestPage(page) ==
  /\ PushAndProcess
  /\ pageCalls' = Append(pageCalls, [page |-> page, id |-> enqueued + 1])

\* getStakeAccountsForAddress is called: the locals are set and the loop
\* runs up to its first await, the request of page 1
GetStakeAccountsForAddress ==
  /\ pagePc = "idle"
  /\ enqueued < MaxRequests
  /\ allStakeAccounts' = <<>>
  /\ currentPage' = 1
  /\ RequestPage(1)
  /\ pagePc' = "await"
  /\ UNCHANGED << now, pageReplies, listResult, orchVars >>

\* the request of the current page has been started by processQueue and
\* is settled: the loop throws, ends and returns, or asks for the next page
PageReplies ==
  /\ pagePc = "await"
  /\ \E i \in 1..Len(started) :
       started[i].id = pageCalls[Len(pageCalls)].id
  /\ \E reply \in PageOutcomes(currentPage) :
       /\ pageReplies' = Append(pageReplies, reply)
       /\ IF PageThrows(reply)
          THEN /\ pagePc' = "raised"
               /\ UNCHANGED << currentPage, allStakeAccounts, pageCalls,
                               listResult, queueVars >>
          ELSE IF HasData(reply)
          THEN /\ enqueued < MaxRequests
               /\ allStakeAccounts' = AppendPage(allStakeAccounts, reply.data)
               /\ currentPage' = currentPage + 1
               /\ RequestPage(currentPage + 1)
               /\ pagePc' = "await"
               /\ UNCHANGED << now, listResult >>
          ELSE /\ pagePc' = "returned"
               /\ listResult' = allStakeAccounts
               /\ UNCHANGED << currentPage, allStakeAccounts, pageCalls,
                               queueVars >>
  /\ UNCHANGED orchVars

\* the listing service with one call of getStakeAccountsForAddress and
\* other callers of its queue
NextPages ==
  \/ GetStakeAccountsForAddress
  \/ PageReplies
  \/ RateLimitedRequest
  \/ TimerFires
  \/ Tick

SpecPages == InitRateLimit /\ [][NextPages]_vars

(***************************************************************************)
(* C38: the pages of the listing                                           *)
(***************************************************************************)
\* the accounts of the first n answers, in page order
RECURSIVE PagesUpTo(_, _)
PagesUpTo(replies, n) ==
  IF n = 0 THEN <<>>
  ELSE PagesUpTo(replies, n - 1) \o TransformedData(replies[n].data)

\* the answer has no account: no data field or an empty array
EmptyPage(reply) ==
  reply.kind = "noData" \/ (reply.kind = "data" /\ reply.data = <<>>)

\* C38: getStakeAccountsForAddress asks for the pages 1, 2, 3, ... one at
\* a time, each through the rate-limited queue; it returns exactly when a
\* page comes back empty, and then returns the accounts of all the earlier
\* pages in page order; if a page reports success = false or its request
\* fails, it raises and returns no list.
C38_PagesInOrderUntilEmpty ==
  LET asked == Len(pageCalls)
      answered == Len(pageReplies)
  IN /\ \A i \in 1..asked : pageCalls[i].page = i
     /\ \A i \in 1..asked :
          \/ \E k \in 1..Len(started) : started[k].id = pageCalls[i].id
          \/ /\ i = asked
             /\ i > answered
             /\ \E k \in 1..Len(requestQueue) :
                  requestQueue[k].id = pageCalls[i].id
     /\ \A i \in 2..asked :
          \E k \in 1..Len(started) :
            /\ started[k].id = pageCalls[i - 1].id
            /\ started[k].at <= now
            /\ pageCalls[i].id > pageCalls[i - 1].id
     /\ asked = answered + (IF pagePc = "await" THEN 1 ELSE 0)
     /\ \A i \in 1..(answered - 1) :
          pageReplies[i].kind = "data" /\ Len(pageReplies[i].data) > 0
     /\ pagePc = "returned" <=>
          (answered > 0 /\ EmptyPage(pageReplies[answered]))
     /\ pagePc = "raised" <=>
          (answered > 0
             /\ pageReplies[answered].kind \in {"rejected", "notSuccess"})
     /\ pagePc = "returned" =>
          listResult = PagesUpTo(pageReplies, answered - 1)
     /\ pagePc # "returned" => listResult = NoList
     /\ pagePc = "await" => currentPage = asked

\* two pages with accounts and an empty third page: the three accounts are
\* returned in page order, the status of the first in lower case
C38_Witness ==
  /\ pagePc = "returned"
  /\ Len(pageReplies) = 3
  /\ Len(pageReplies[1].data) = 2
  /\ Len(pageReplies[2].data) = 1
  /\ pageReplies[1].data[1].status = "Inactive"
  /\ Len(listResult) = 3
  /\ \A k \in 1..3 : listResult[k].address = k
  /\ listResult[1].status = "inactive"
  /\ listResult[2].status = ""

(***************************************************************************)
(* C39: one drain loop, and no request left behind                         *)
(***************************************************************************)
\* the queue with the scheduling of the event loop: time passes and a due
\* timer fires
SpecQueueLive ==
  InitRateLimit /\ [][NextRateLimit]_vars
    /\ WF_vars(Tick) /\ WF_vars(TimerFires)

\* the request with this id has been started
Started(id) == \E k \in 1..Len(started) : started[k].id = id

\* C39: at most one call of processQueue is inside its loop at any time, a
\* request waits in the queue only while such a loop is active, and every
\* request enqueued by rateLimitedRequest is eventually started, whether
\* it was enqueued while the loop was idle, in its delay or about to end.
C39_OneLoopNoneStranded ==
  /\ [](/\ loops <= 1
        /\ processing <=> loops = 1
        /\ Len(requestQueue) > 0 => processing)
  /\ \A id \in 1..MaxRequests : (enqueued >= id) ~> Started(id)

\* a request enqueued during the delay of the loop and started by that same
\* loop, and a later one enqueued after the timer was due
C39_Witness ==
  /\ Len(started) = 3
  /\ loops = 1
  /\ started[2].queuedAt > started[1].at
  /\ started[2].queuedAt < started[1].at + RequestInterval
  /\ started[2].at = started[1].at + RequestInterval
  /\ started[3].queuedAt >= started[2].at + RequestInterval
  /\ started[3].at = started[3].queuedAt

====
